---------------------------- MODULE Spec2Model ----------------------------
(***************************************************************************)
(* Temporal-window analytics engine of the OSHIT data backend.             *)
(*                                                                         *)
(* Seven specifications share this module:                                   *)
(*   SpecWindow   the window resolution and row selection of the request   *)
(*                handlers (routes/calculate.py, calculators/ts.py,        *)
(*                utils/db_loader.py);                                     *)
(*   SpecMetrics  the per-source period aggregators and delta merging;     *)
(*   SpecRank     the leaderboards;                                        *)
(*   SpecDaily    the daily series and the revenue composition;            *)
(*   SpecAnomaly  the anomaly detectors of a day (calculators/anomaly.py); *)
(*   SpecPool     calculate_ts_sql with its pool of four workers;          *)
(*   SpecCache    the sheet cache (data_cache.py) and the calls that read  *)
(*                it.                                                      *)
(*                                                                         *)
(* Time is counted in minutes.  A civil date is a day number; an instant   *)
(* is a number of minutes since 00:00 of day 0.  The row stores hold UTC   *)
(* instants; the sheet column 'Timestamp(UTC+8)' holds the civil time of   *)
(* the same instant eight hours ahead.                                     *)
(***************************************************************************)
EXTENDS Integers, Sequences, FiniteSets, TLC

VARIABLES
    request,    \* SpecWindow: the DateRangeRequest {start_date, end_date}
    table,      \* SpecWindow: UTC instants at which the row sources hold a row
    resp,       \* SpecWindow: outcome of the last request handler
    frames,     \* SpecMetrics: the row sets handed to a calculator
    metrics,    \* SpecMetrics: the calculator's metrics object
    board_in,   \* SpecRank: the rows handed to a ranking function
    board,      \* SpecRank: the leaderboard returned
    daily_in,   \* SpecDaily: the rows handed to a daily series function
    daily,      \* SpecDaily: the daily series (and the revenue composition)
    anomaly_in, \* SpecAnomaly: the reward tables of the day and the engine
    findings,   \* SpecAnomaly: the answer of calculate_anomalies
    sql_env,    \* SpecPool: the engine and the queries of calculate_ts_sql
    pool,       \* SpecPool: the caller and the tasks of the worker pool
    data_cache, \* SpecCache: the DataCache singleton and its two files
    cache_log   \* SpecCache: the calls made so far and their outcomes

vars == <<request, table, resp, frames, metrics, board_in, board,
          daily_in, daily, anomaly_in, findings, sql_env, pool,
          data_cache, cache_log>>

windowVars == <<request, table, resp>>
metricVars == <<frames, metrics>>
rankVars == <<board_in, board>>
dailyVars == <<daily_in, daily>>
anomalyVars == <<anomaly_in, findings>>
poolVars == <<sql_env, pool>>
cacheVars == <<data_cache, cache_log>>

-----------------------------------------------------------------------------
(* Bounds of the model *)

\* last civil date a request may name (the first is day 2, which leaves room
\* for the previous period of a two-day request)
MaxDay == 4
\* most rows a row source holds in SpecWindow
MaxTableRows == 1

-----------------------------------------------------------------------------
(* Clock arithmetic: pandas Timestamp / Timedelta, strftime, SQL DATETIME *)

MinPerDay == 24 * 60

\* pd.to_datetime('YYYY-MM-DD'): midnight of the civil date
to_datetime(date) == date * MinPerDay

\* Timestamp.replace(hour=h, minute=0, second=0, microsecond=0)
replace_hour(ts, h) == (ts \div MinPerDay) * MinPerDay + h * 60

\* pd.Timedelta(days=n), pd.Timedelta(hours=n)
Timedelta_days(n) == n * MinPerDay
Timedelta_hours(n) == n * 60

\* Timedelta.days: whole days, rounded towards minus infinity
days_of(td) == td \div MinPerDay

\* Timestamp.strftime('%Y-%m-%d %H:%M:%S'): the text handed to SQL
strftime(ts) ==
    [date |-> ts \div MinPerDay,
     H    |-> (ts % MinPerDay) \div 60,
     M    |-> ts % 60]

\* The DATETIME MySQL reads back from that text when comparing a column to it
SqlDatetime(s) == s.date * MinPerDay + s.H * 60 + s.M

\* tz_localize('UTC') . tz_convert('Asia/Shanghai') . tz_localize(None)
TzConvertShanghai(utc) == utc + Timedelta_hours(8)

\* The sheet column 'Timestamp(UTC+8)' of a row that happened at instant utc
SheetTimestamp(utc) == utc + Timedelta_hours(8)

-----------------------------------------------------------------------------
(* Inputs of SpecWindow *)

RequestDays == 2 .. MaxDay

\* Minutes of the UTC day at which the model places rows: both sides of the
\* UTC images of the three civil boundary hours (08:00 -> 00:00, 12:00 -> 04:00,
\* 00:00 -> 16:00) and two instants inside a business day.
ClockMarks ==
    {0, 1, 4 * 60 - 1, 4 * 60, 15 * 60 + 30, 16 * 60 - 1, 16 * 60,
     16 * 60 + 30, MinPerDay - 1}

Instants == {d * MinPerDay + m : d \in 0 .. (MaxDay + 1), m \in ClockMarks}

RECURSIVE TablesUpTo(_)
TablesUpTo(n) ==
    IF n = 0 THEN {{}}
    ELSE LET smaller == TablesUpTo(n - 1)
         IN  smaller \cup {t \cup {i} : t \in smaller, i \in Instants}

Tables == TablesUpTo(MaxTableRows)

-----------------------------------------------------------------------------
(* Window resolution and row selection *)

NoResp == [handler |-> "none", status |-> 0, windows |-> <<>>, sel |-> <<>>]

\* The four instants a handler computes, in the clock it computes them in
Window(cs, ce, ps, pe, tz) ==
    [current_start |-> cs, current_end |-> ce,
     prev_start |-> ps, prev_end |-> pe, tz |-> tz]

\* RouteWindow with the period length taken as end - start, without the + 1
RouteWindow_NoPlusOne(req, hour) ==
    LET current_start == replace_hour(to_datetime(req.start_date), hour)
        current_end ==
            replace_hour(to_datetime(req.end_date) + Timedelta_days(1), hour)
        period_length ==
            days_of(to_datetime(req.end_date) - to_datetime(req.start_date))
        prev_start == current_start - Timedelta_days(period_length)
        prev_end == current_start
    IN  Window(current_start, current_end, prev_start, prev_end, "UTC+8")

\* The date-range block every route of routes/calculate.py repeats, with the
\* route's boundary hour
RouteWindow(req, hour) ==
    LET current_start == replace_hour(to_datetime(req.start_date), hour)
        current_end ==
            replace_hour(to_datetime(req.end_date) + Timedelta_days(1), hour)
        period_length ==
            days_of(to_datetime(req.end_date) - to_datetime(req.start_date)) + 1
        prev_start == current_start - Timedelta_days(period_length)
        prev_end == current_start
    IN  Window(current_start, current_end, prev_start, prev_end, "UTC+8")

\* The frame a sheet-backed source gives: its 'Timestamp(UTC+8)' column
SheetFrame(tbl) == {SheetTimestamp(r) : r \in tbl}

\* SplitFrame with a closed upper end
SplitFrame_Closed(df, lo, hi) == {ts \in df : ts >= lo /\ ts <= hi}

\* df[(df[timestamp_col] >= lo) & (df[timestamp_col] < hi)]
SplitFrame(df, lo, hi) == {ts \in df : ts >= lo /\ ts < hi}

\* current / previous split of the routes: [current_start, current_end) and
\* [prev_start, current_start)
SplitPeriods(df, w) ==
    [current |-> SplitFrame(df, w.current_start, w.current_end),
     prev    |-> SplitFrame(df, w.prev_start, w.current_start)]

\* WHERE block_time_dt >= :start AND block_time_dt < :end, the parameters
\* being strftime texts
SqlWhere(tbl, start_utc, end_utc) ==
    {r \in tbl : /\ r >= SqlDatetime(strftime(start_utc))
                 /\ r <  SqlDatetime(strftime(end_utc))}

\* load_ts_log_from_db filtering with the civil window as if it were UTC
load_ts_log_from_db_NoShift(tbl, start_dt, end_dt) ==
    {TzConvertShanghai(r) : r \in SqlWhere(tbl, start_dt, end_dt)}

\* load_ts_log_from_db(start_dt, end_dt): the civil window moved to UTC, the
\* rows of take_a_SHIT inside it, each with its 'Timestamp(UTC+8)'
load_ts_log_from_db(tbl, start_dt, end_dt) ==
    LET utc_start == start_dt - Timedelta_hours(8)
        utc_end   == end_dt - Timedelta_hours(8)
    IN  {TzConvertShanghai(r) : r \in SqlWhere(tbl, utc_start, utc_end)}

\* A handler's answer: per source read, the window and the two row sets
Ok(handler, windows, sel) ==
    [handler |-> handler, status |-> 200, windows |-> windows, sel |-> sel]

\* except Exception: raise HTTPException(500)
Http500(handler) ==
    [handler |-> handler, status |-> 500, windows |-> <<>>, sel |-> <<>>]

\* POST /calculate/staking
staking_route(req, tbl) ==
    LET w == RouteWindow(req, 0)
    IN  Ok("calculate_staking",
           [s \in {"Staking_Amount_Log", "Staking_Log"} |-> w],
           [s \in {"Staking_Amount_Log", "Staking_Log"} |->
                SplitPeriods(SheetFrame(tbl), w)])

\* POST /calculate/ts
ts_route(req, tbl) ==
    LET w == RouteWindow(req, 8)
        df_ts_log_all == load_ts_log_from_db(tbl, w.prev_start, w.current_end)
        period_length ==
            days_of(to_datetime(req.end_date) - to_datetime(req.start_date)) + 1
        price_start == replace_hour(to_datetime(req.start_date), 0)
        price_end ==
            replace_hour(to_datetime(req.end_date) + Timedelta_days(1), 0)
        prev_price_start ==
            replace_hour(to_datetime(req.start_date)
                            - Timedelta_days(period_length), 0)
        pw == Window(price_start, price_end, prev_price_start, price_start,
                     "UTC+8")
    IN  Ok("calculate_ts",
           ("TS_Log" :> w) @@ ("TS_Discord" :> w) @@ ("SHIT_Price_Log" :> pw),
           ("TS_Log" :>
                IF df_ts_log_all = {}
                THEN [current |-> {}, prev |-> {}]
                ELSE SplitPeriods(df_ts_log_all, w))
           @@ ("TS_Discord" :> SplitPeriods(SheetFrame(tbl), w))
           @@ ("SHIT_Price_Log" :> SplitPeriods(SheetFrame(tbl), pw)))

\* A POS route that cuts its periods at 00:00
pos_route_Midnight(req, tbl) ==
    LET w == RouteWindow(req, 0)
    IN  Ok("calculate_pos", ("POS_Log" :> w),
           ("POS_Log" :> SplitPeriods(SheetFrame(tbl), w)))

\* POST /calculate/pos
pos_route(req, tbl) ==
    LET w == RouteWindow(req, 12)
    IN  Ok("calculate_pos", ("POS_Log" :> w),
           ("POS_Log" :> SplitPeriods(SheetFrame(tbl), w)))

\* POST /calculate/shitcode
shitcode_route(req, tbl) ==
    LET w == RouteWindow(req, 0)
    IN  Ok("calculate_shitcode", ("ShitCode_Log" :> w),
           ("ShitCode_Log" :> SplitPeriods(SheetFrame(tbl), w)))

\* POST /calculate/defi
defi_route(req, tbl) ==
    LET w == RouteWindow(req, 0)
    IN  Ok("calculate_defi", ("Liq_Pool_Activity" :> w),
           ("Liq_Pool_Activity" :> SplitPeriods(SheetFrame(tbl), w)))

\* POST /calculate/revenue: one period length, three boundary hours.  An
\* empty load_ts_log_from_db result is a frame without columns, and indexing
\* its timestamp column raises.
revenue_route(req, tbl) ==
    LET ts  == RouteWindow(req, 8)
        pos == RouteWindow(req, 12)
        stk == RouteWindow(req, 0)
        df_ts_all == load_ts_log_from_db(tbl, ts.prev_start, ts.current_end)
    IN  IF df_ts_all = {}
        THEN Http500("calculate_revenue")
        ELSE Ok("calculate_revenue",
                ("TS_Log" :> ts) @@ ("POS_Log" :> pos)
                @@ ("Staking_Log" :> stk) @@ ("ShitCode_Log" :> stk),
                ("TS_Log" :> SplitPeriods(df_ts_all, ts))
                @@ ("POS_Log" :> SplitPeriods(SheetFrame(tbl), pos))
                @@ ("Staking_Log" :> SplitPeriods(SheetFrame(tbl), stk))
                @@ ("ShitCode_Log" :> SplitPeriods(SheetFrame(tbl), stk)))

\* calculate_ts_sql: the date boundaries, in UTC
TsSqlWindow(req) ==
    LET current_start == to_datetime(req.start_date)
        current_end == to_datetime(req.end_date) + Timedelta_days(1)
        period_days == days_of(current_end - current_start)
        prev_start == current_start - Timedelta_days(period_days)
        prev_end == current_start
    IN  Window(current_start, current_end, prev_start, prev_end, "UTC")

\* _fetch_combined_avg_prices(engine, start_utc, end_utc, split_utc): the
\* price rows averaged into avg_prev and avg_curr
PriceRows(tbl, start_utc, end_utc, split_utc) ==
    LET start == SqlDatetime(strftime(start_utc))
        end   == SqlDatetime(strftime(end_utc))
        split == SqlDatetime(strftime(split_utc))
        rows  == {r \in tbl : r >= start /\ r < end}
    IN  [prev    |-> {r \in rows : r >= start /\ r < split},
         current |-> {r \in rows : r >= split /\ r < end}]

\* calculate_ts_sql: the rows its queries aggregate for each period
ts_sql(req, tbl) ==
    LET w == TsSqlWindow(req)
    IN  Ok("calculate_ts_sql",
           ("take_a_SHIT" :> w) @@ ("shit_price_history" :> w),
           ("take_a_SHIT" :>
                [current |-> SqlWhere(tbl, w.current_start, w.current_end),
                 prev    |-> SqlWhere(tbl, w.prev_start, w.prev_end)])
           @@ ("shit_price_history" :>
                PriceRows(tbl, w.prev_start, w.current_end, w.current_start)))

-----------------------------------------------------------------------------
(* SpecWindow: requests arrive and the handlers answer them *)

NoFrames == [source |-> "none"]
NoMetrics == [source |-> "none"]
NoBoard == [source |-> "none"]
NoDaily == [source |-> "none"]
NoFindings == [status |-> "none"]
NoPool == [pc |-> "none"]
NoCache == [now |-> 0]

\* The state of the calculators that a specification does not run
IdleDaily == daily_in = NoDaily /\ daily = NoDaily
IdleAnomaly == anomaly_in = NoFindings /\ findings = NoFindings
IdlePool == sql_env = NoPool /\ pool = NoPool
IdleCache == data_cache = NoCache /\ cache_log = <<>>

WindowIdle ==
    UNCHANGED <<metricVars, rankVars, dailyVars, anomalyVars, poolVars,
                cacheVars>>

InitWindow ==
    /\ request \in [start_date : RequestDays, end_date : RequestDays]
    /\ table \in Tables
    /\ resp = NoResp
    /\ frames = NoFrames
    /\ metrics = NoMetrics
    /\ board_in = NoBoard
    /\ board = NoBoard
    /\ IdleDaily /\ IdleAnomaly /\ IdlePool /\ IdleCache

\* The next DateRangeRequest arrives
Receive ==
    /\ resp # NoResp
    /\ request' \in [start_date : RequestDays, end_date : RequestDays]
    /\ resp' = NoResp
    /\ UNCHANGED table
    /\ WindowIdle

Answer(r) ==
    /\ resp = NoResp
    /\ resp' = r
    /\ UNCHANGED <<request, table>>
    /\ WindowIdle

calculate_staking_route == Answer(staking_route(request, table))
calculate_ts_route == Answer(ts_route(request, table))
calculate_pos_route == Answer(pos_route(request, table))
calculate_shitcode_route == Answer(shitcode_route(request, table))
calculate_revenue_route == Answer(revenue_route(request, table))
calculate_defi_route == Answer(defi_route(request, table))
calculate_ts_sql == Answer(ts_sql(request, table))

NextWindow ==
    \/ Receive
    \/ calculate_staking_route
    \/ calculate_ts_route
    \/ calculate_pos_route
    \/ calculate_shitcode_route
    \/ calculate_revenue_route
    \/ calculate_defi_route
    \/ calculate_ts_sql

SpecWindow == InitWindow /\ [][NextWindow]_vars

-----------------------------------------------------------------------------
(* Numbers of the metric vectors.  A Python float or int is the rational    *)
(* n / d with d >= 1 in lowest terms; None (SQL NULL) is the value with d = 0 *)

RECURSIVE Gcd(_, _)
Gcd(a, b) == IF b = 0 THEN a ELSE Gcd(b, a % b)

Abs(x) == IF x < 0 THEN -x ELSE x

Rat(n, d) ==
    LET g == Gcd(Abs(n), d) IN [n |-> n \div g, d |-> d \div g]

Num(x) == [n |-> x, d |-> 1]

Null == [n |-> 0, d |-> 0]

IsNull(v) == v.d = 0

\* Python truthiness of a number or None
Truthy(v) == ~IsNull(v) /\ v.n # 0

\* x or 0
OrZero(v) == IF Truthy(v) THEN v ELSE Num(0)

Sub(a, b) == Rat(a.n * b.d - b.n * a.d, a.d * b.d)
Mul(a, b) == Rat(a.n * b.n, a.d * b.d)
\* a / b for b # 0
Div(a, b) ==
    IF b.n > 0 THEN Rat(a.n * b.d, a.d * b.n) ELSE Rat(-(a.n * b.d), a.d * (-b.n))

RECURSIVE SeqSum(_)
SeqSum(s) == IF s = <<>> THEN 0 ELSE Head(s) + SeqSum(Tail(s))

\* Series.sum(): 0 over no rows
PdSum(s) == Num(SeqSum(s))

\* SQL SUM(): NULL over no rows
SqlSum(s) == IF s = <<>> THEN Null ELSE Num(SeqSum(s))

\* {}
EmptyDict == [key \in {} |-> Null]

\* A metric with its previous value and its change
Triple(c, p, delta) == [Current |-> c, Prev |-> p, Delta |-> delta]

\* dict.get(key, 0)
Get(dict, key) == IF key \in DOMAIN dict THEN dict[key] ELSE Num(0)

\* calc_delta returning 0 where the change is undefined
calc_delta_ZeroDefault(current, prev) ==
    IF IsNull(prev) \/ prev.n <= 0 THEN Num(0)
    ELSE Mul(Div(Sub(current, prev), prev), Num(100))

\* calc_delta(current, prev) of every calculator:
\* None if prev is None or prev <= 0, else (current - prev) / prev * 100
calc_delta(current, prev) ==
    IF IsNull(prev) \/ prev.n <= 0 THEN Null
    ELSE Mul(Div(Sub(current, prev), prev), Num(100))

-----------------------------------------------------------------------------
(* TS: _fetch_period_metrics_sql and _merge_metrics *)

\* The derived tier counts with the base tier taken from the tier-2 count
TierCounts_FromRef2(ts_claim, ref1, ref2) ==
    [two_ref_tx |-> ref2, one_ref_tx |-> ref1 - ref2, wolf_tx |-> ts_claim - ref2]

\* two_ref_tx, one_ref_tx, wolf_tx
TierCounts(ts_claim, ref1, ref2) ==
    [two_ref_tx |-> ref2, one_ref_tx |-> ref1 - ref2, wolf_tx |-> ts_claim - ref1]

\* The single row the aggregate query returns over the rows of the window
TsQueryRow(rows) ==
    LET IsClaim(r) == r.amount \in {500, 1500}
        IsDraw(r)  == r.amount \notin {500, 1500, 50, 150, 25, 75}
        IsRef1(r)  == r.amount \in {50, 150}
        IsRef2(r)  == r.amount \in {25, 75}
        claims == SelectSeq(rows, IsClaim)
        draws  == SelectSeq(rows, IsDraw)
    IN  [tsClaim |-> Num(Len(claims)),
         totalAmount |-> SqlSum([i \in 1 .. Len(rows) |-> rows[i].amount]),
         uniqueAddresses |->
             Num(Cardinality({claims[i].to_user : i \in 1 .. Len(claims)})),
         luckyDraws |-> Num(Len(draws)),
         luckyDrawAmount |->
             SqlSum([i \in 1 .. Len(rows) |->
                        IF IsDraw(rows[i]) THEN rows[i].amount ELSE 0]),
         luckyDrawAddresses |->
             Num(Cardinality({draws[i].to_user : i \in 1 .. Len(draws)})),
         ref1Count |-> Num(Len(SelectSeq(rows, IsRef1))),
         ref2Count |-> Num(Len(SelectSeq(rows, IsRef2))),
         revenue |-> SqlSum([i \in 1 .. Len(rows) |-> rows[i].SolSentToTreasury]),
         totalTx |-> Num(Len(rows))]

\* A category column that files the tier-2 amounts under tier 1
TS_Category_TwoTiers(amount) ==
    IF amount \in {500, 1500} THEN 0
    ELSE IF amount \in {50, 150, 25, 75} THEN 1
    ELSE 3

\* load_ts_log_from_db: df['TS_Category'] of a row by its amount, 3 by
\* default and then overwritten for the three pairs of amounts in turn
TS_Category(amount) ==
    LET by_default == 3
        after_claim == IF amount \in {500, 1500} THEN 0 ELSE by_default
        after_ref1 == IF amount \in {50, 150} THEN 1 ELSE after_claim
        after_ref2 == IF amount \in {25, 75} THEN 2 ELSE after_ref1
    IN  after_ref2

\* _fetch_period_metrics_sql(engine, start_utc, end_utc, avg_price) over the
\* rows of [start_utc, end_utc); ok is false when the query raises
fetch_period_metrics_sql(rows, avg_price, ok) ==
    IF ~ok THEN EmptyDict
    ELSE
    LET row == TsQueryRow(rows)
        ts_claim == OrZero(row.tsClaim)
        total_amount == OrZero(row.totalAmount)
        unique_addresses == OrZero(row.uniqueAddresses)
        lucky_draws == OrZero(row.luckyDraws)
        lucky_draw_amount == OrZero(row.luckyDrawAmount)
        lucky_draw_addresses == OrZero(row.luckyDrawAddresses)
        ref1 == OrZero(row.ref1Count)
        ref2 == OrZero(row.ref2Count)
        revenue == OrZero(row.revenue)
        total_tx == OrZero(row.totalTx)
        tiers == TierCounts(ts_claim.n, ref1.n, ref2.n)
        shit_cost == Mul(total_amount, avg_price)
        roi == IF shit_cost.n > 0 THEN Div(revenue, shit_cost) ELSE Num(0)
    IN  [totalTx |-> total_tx,
         tsClaim |-> ts_claim,
         totalAmount |-> total_amount,
         uniqueAddresses |-> unique_addresses,
         meanClaims |->
             IF unique_addresses.n > 0 THEN Div(ts_claim, unique_addresses)
             ELSE Num(0),
         wolfTx |-> Num(tiers.wolf_tx),
         oneRefTx |-> Num(tiers.one_ref_tx),
         twoRefTx |-> Num(tiers.two_ref_tx),
         luckyDraws |-> lucky_draws,
         luckyDrawAmount |-> lucky_draw_amount,
         luckyDrawAddresses |-> lucky_draw_addresses,
         revenue |-> revenue,
         shitCost |-> shit_cost,
         roi |-> roi]

\* A merge over the keys that both vectors hold
merge_metrics_Intersection(current, prev) ==
    [key \in DOMAIN current \cap DOMAIN prev |->
        LET curr_val == Get(current, key)
            prev_val == Get(prev, key)
        IN  Triple(curr_val, prev_val, calc_delta(curr_val, prev_val))]

\* A merge that reads its keys from current alone
merge_metrics_CurrentKeys(current, prev) ==
    [key \in DOMAIN current |->
        LET curr_val == Get(current, key)
            prev_val == Get(prev, key)
        IN  Triple(curr_val, prev_val, calc_delta(curr_val, prev_val))]

\* _merge_metrics(current, prev): {key}Current, {key}Prev, {key}Delta for the
\* keys of current, or of prev when current is empty
merge_metrics(current, prev) ==
    LET keys == IF DOMAIN current # {} THEN DOMAIN current ELSE DOMAIN prev
    IN  [key \in keys |->
            LET curr_val == Get(current, key)
                prev_val == Get(prev, key)
            IN  Triple(curr_val, prev_val, calc_delta(curr_val, prev_val))]

-----------------------------------------------------------------------------
(* Sheet frames: a frame is the sequence of its rows, a row a function from *)
(* column names to cells.  The frames of the model hold no missing cells.   *)

\* df[name]
Col(df, name) == [i \in 1 .. Len(df) |-> df[i][name]]

\* df[df[name] == value]
Where(df, name, value) == LET Keep(r) == r[name] = value IN SelectSeq(df, Keep)

\* Series.abs()
AbsCol(s) == [i \in 1 .. Len(s) |-> Abs(s[i])]

\* Series.nunique()
NUnique(s) == Cardinality({s[i] : i \in 1 .. Len(s)})

\* Series.max(), Series.min() of a series that is not empty
SeqMax(s) == CHOOSE x \in {s[i] : i \in 1 .. Len(s)} :
                 \A j \in 1 .. Len(s) : s[j] <= x
SeqMin(s) == CHOOSE x \in {s[i] : i \in 1 .. Len(s)} :
                 \A j \in 1 .. Len(s) : s[j] >= x

\* The triples of two period vectors over the keys of the current one
DeltaTriples(metrics_current, metrics_prev) ==
    [k \in DOMAIN metrics_current |->
        Triple(metrics_current[k], metrics_prev[k],
               calc_delta(metrics_current[k], metrics_prev[k]))]

-----------------------------------------------------------------------------
(* POS: calculators/pos.py *)

\* _compute_period_metrics whose empty-frame answer misses a key
pos_compute_period_metrics_Partial(df_pos) ==
    IF Len(df_pos) = 0
    THEN [totalTx |-> Num(0), totalAmount |-> Num(0), maxAmount |-> Num(0),
          minAmount |-> Num(0), totalRevenue |-> Num(0)]
    ELSE [totalTx |-> Num(Len(df_pos)),
          totalAmount |-> PdSum(Col(df_pos, "SHIT Sent")),
          maxAmount |-> Num(SeqMax(Col(df_pos, "SHIT Sent"))),
          minAmount |-> Num(SeqMin(Col(df_pos, "SHIT Sent"))),
          totalRevenue |-> PdSum(Col(df_pos, "SOL Received")),
          avgReward |-> Div(PdSum(Col(df_pos, "SHIT Sent")), Num(Len(df_pos)))]

\* _compute_period_metrics(df_pos)
pos_compute_period_metrics(df_pos) ==
    LET total_tx == Len(df_pos)
    IN  IF total_tx = 0
        THEN [totalTx |-> Num(0), totalAmount |-> Num(0), maxAmount |-> Num(0),
              minAmount |-> Num(0), totalRevenue |-> Num(0),
              avgReward |-> Num(0)]
        ELSE
        LET amounts == Col(df_pos, "SHIT Sent")
            total_amount == PdSum(amounts)
            max_amount ==
                IF Len(amounts) > 0 THEN Num(SeqMax(amounts)) ELSE Num(0)
            min_amount ==
                IF Len(amounts) > 0 THEN Num(SeqMin(amounts)) ELSE Num(0)
            total_revenue == PdSum(Col(df_pos, "SOL Received"))
            avg_reward ==
                IF total_tx > 0 THEN Div(total_amount, Num(total_tx))
                ELSE Num(0)
        IN  [totalTx |-> Num(total_tx), totalAmount |-> total_amount,
             maxAmount |-> max_amount, minAmount |-> min_amount,
             totalRevenue |-> total_revenue, avgReward |-> avg_reward]

-----------------------------------------------------------------------------
(* ShitCode: calculators/shitcode.py *)

\* _compute_period_metrics(df)
shitcode_compute_period_metrics(df) ==
    IF Len(df) = 0
    THEN [claimCount |-> Num(0), claimAmount |-> Num(0),
          uniqueAddresses |-> Num(0), avgClaimPerAddress |-> Null]
    ELSE
    LET claim_count == Len(df)
        claim_amount == PdSum(Col(df, "SHIT Sent"))
        unique_addresses == NUnique(Col(df, "Receiver Address"))
        avg_claim_per_address ==
            IF unique_addresses > 0
            THEN Div(claim_amount, Num(unique_addresses))
            ELSE Null
    IN  [claimCount |-> Num(claim_count), claimAmount |-> claim_amount,
         uniqueAddresses |-> Num(unique_addresses),
         avgClaimPerAddress |-> avg_claim_per_address]

\* _compute_metrics(df_current, df_prev): the delta of avgClaimPerAddress is
\* computed only when both averages are truthy
shitcode_compute_metrics(metrics_current, metrics_prev) ==
    LET Plain(k) ==
            Triple(metrics_current[k], metrics_prev[k],
                   calc_delta(metrics_current[k], metrics_prev[k]))
        cur_avg  == metrics_current["avgClaimPerAddress"]
        prev_avg == metrics_prev["avgClaimPerAddress"]
    IN  [claimCount |-> Plain("claimCount"),
         claimAmount |-> Plain("claimAmount"),
         uniqueAddresses |-> Plain("uniqueAddresses"),
         avgClaimPerAddress |->
             Triple(cur_avg, prev_avg,
                    IF Truthy(cur_avg) /\ Truthy(prev_avg)
                    THEN calc_delta(OrZero(cur_avg), OrZero(prev_avg))
                    ELSE Null)]

-----------------------------------------------------------------------------
(* Staking: calculators/staking.py *)

\* The six period values _compute_metrics derives from one period's frames
staking_period_metrics(df_amount, df_log) ==
    LET total_stake ==
            PdSum(Col(Where(df_amount, "Type", "STAKE"), "SHIT Amount"))
        total_unstake ==
            PdSum(Col(Where(df_amount, "Type", "UNSTAKE"), "SHIT Amount"))
    IN  [totalStake |-> total_stake,
         totalUnstake |-> total_unstake,
         netStake |-> Sub(total_stake, total_unstake),
         stakeCount |-> Num(Len(Where(df_amount, "Type", "STAKE"))),
         rewardCount |-> Num(Len(df_log)),
         rewardAmount |-> PdSum(Col(df_log, "SHIT Sent"))]

-----------------------------------------------------------------------------
(* DeFi: calculators/defi.py *)

\* _compute_period_metrics(df)
defi_compute_period_metrics(df) ==
    IF Len(df) = 0
    THEN [buyShitAmount |-> Num(0), buyCount |-> Num(0),
          buyUsdtAmount |-> Num(0), sellShitAmount |-> Num(0),
          sellCount |-> Num(0), sellUsdtAmount |-> Num(0),
          tsSellShitAmount |-> Num(0), tsSellUsdtAmount |-> Num(0),
          liqAddUsdt |-> Num(0), liqAddCount |-> Num(0),
          liqRemoveUsdt |-> Num(0), liqRemoveCount |-> Num(0)]
    ELSE
    LET buy_df == Where(df, "Activity", "BUY")
        sell_df == Where(df, "Activity", "SELL")
        InTsRange(r) ==
            Abs(r["SHIT Change"]) >= 13000 /\ Abs(r["SHIT Change"]) <= 20000
        ts_sell_df == SelectSeq(sell_df, InTsRange)
        liq_add_df == Where(df, "Activity", "LIQ_ADD")
        liq_remove_df == Where(df, "Activity", "LIQ_REMOVE")
        AbsSum(frame, name) ==
            IF frame # <<>> THEN PdSum(AbsCol(Col(frame, name))) ELSE Num(0)
    IN  [buyShitAmount |-> AbsSum(buy_df, "SHIT Change"),
         buyCount |-> Num(Len(buy_df)),
         buyUsdtAmount |-> AbsSum(buy_df, "USDT Change"),
         sellShitAmount |-> AbsSum(sell_df, "SHIT Change"),
         sellCount |-> Num(Len(sell_df)),
         sellUsdtAmount |-> AbsSum(sell_df, "USDT Change"),
         tsSellShitAmount |-> AbsSum(ts_sell_df, "SHIT Change"),
         tsSellUsdtAmount |-> AbsSum(ts_sell_df, "USDT Change"),
         liqAddUsdt |-> AbsSum(liq_add_df, "USDT Change"),
         liqAddCount |-> Num(Len(liq_add_df)),
         liqRemoveUsdt |-> AbsSum(liq_remove_df, "USDT Change"),
         liqRemoveCount |-> Num(Len(liq_remove_df))]

-----------------------------------------------------------------------------
(* Revenue: calculators/revenue.py *)

\* float(df[name].sum()) if len(df) > 0 and name in df.columns else 0.0
RevenueOf(df, name) ==
    IF Len(df) > 0 /\ name \in DOMAIN df[1] THEN PdSum(Col(df, name))
    ELSE Num(0)

\* _compute_period_metrics(df_ts, df_pos, df_staking, df_shitcode)
revenue_compute_period_metrics(df_ts, df_pos, df_staking, df_shitcode) ==
    LET ts_revenue == RevenueOf(df_ts, "SOL_Received")
        pos_revenue == RevenueOf(df_pos, "SOL Received")
        staking_revenue == RevenueOf(df_staking, "SOL Received")
        shitcode_revenue == RevenueOf(df_shitcode, "SOL Received")
        total_revenue ==
            Num(ts_revenue.n + pos_revenue.n + staking_revenue.n
                    + shitcode_revenue.n)
    IN  [tsRevenue |-> ts_revenue, posRevenue |-> pos_revenue,
         stakingRevenue |-> staking_revenue,
         shitCodeRevenue |-> shitcode_revenue,
         totalRevenue |-> total_revenue]

-----------------------------------------------------------------------------
(* The metric calculators (SpecMetrics): each calculator receives the rows  *)
(* of its current and previous period and answers the merged metrics.       *)

MaxRows == 2
MaxRevenueRows == 1

\* The non-decreasing index sequences of at most n indices into k row kinds
SortedIdx(n, k) ==
    UNION {{s \in [1 .. len -> 1 .. k] :
               \A i \in 1 .. (len - 1) : s[i] <= s[i + 1]} : len \in 0 .. n}

\* The frames of at most n rows drawn from a list of row kinds
FramesOf(kinds, n) ==
    {[i \in 1 .. Len(s) |-> kinds[s[i]]] : s \in SortedIdx(n, Len(kinds))}

TsRow(amount, to_user, sol) ==
    [amount |-> amount, to_user |-> to_user, SolSentToTreasury |-> sol]

TsKinds ==
    <<TsRow(500, "A", 2), TsRow(1500, "B", 3), TsRow(50, "A", 0),
      TsRow(25, "B", 0), TsRow(7, "A", 1)>>

LogRow(address, shit, sol) ==
    [k \in {"Receiver Address", "SHIT Sent", "SOL Received"} |->
        CASE k = "Receiver Address" -> address
          [] k = "SHIT Sent" -> shit
          [] OTHER -> sol]

PosKinds == <<LogRow("A", 100, 2), LogRow("B", 40, 1), LogRow("B", 100, 0)>>

ShitCodeKinds ==
    <<LogRow("A", 100, 1), LogRow("B", 50, 0), LogRow("A", 0, 0)>>

AmountRow(type, address, amount) ==
    [k \in {"Type", "Address", "SHIT Amount"} |->
        CASE k = "Type" -> type
          [] k = "Address" -> address
          [] OTHER -> amount]

StakingAmountKinds ==
    <<AmountRow("STAKE", "A", 100), AmountRow("STAKE", "B", 30),
      AmountRow("UNSTAKE", "A", 100), AmountRow("UNSTAKE", "B", 200)>>

StakingLogKinds == <<LogRow("A", 10, 1)>>

DefiRow(activity, shit, usdt) ==
    [k \in {"Activity", "SHIT Change", "USDT Change"} |->
        CASE k = "Activity" -> activity
          [] k = "SHIT Change" -> shit
          [] OTHER -> usdt]

DefiKinds ==
    <<DefiRow("BUY", 100, -5), DefiRow("SELL", -200, 8),
      DefiRow("SELL", -15000, 600), DefiRow("LIQ_ADD", 0, 50),
      DefiRow("LIQ_REMOVE", 0, -20)>>

\* One row of the reward table as load_ts_log_from_db names its columns
TsLogRow(sol) == [k \in {"SOL_Received"} |-> sol]

AvgPrices == {Num(1), Rat(1, 2)}

TsPeriods ==
    [rows : FramesOf(TsKinds, MaxRows), avg_price : AvgPrices, ok : BOOLEAN]

StakingPeriods ==
    [amount : FramesOf(StakingAmountKinds, MaxRows),
     log : FramesOf(StakingLogKinds, MaxRows)]

RevenuePeriods ==
    [ts : FramesOf(<<TsLogRow(3)>>, MaxRevenueRows),
     pos : FramesOf(<<LogRow("A", 100, 2)>>, MaxRevenueRows),
     staking : FramesOf(<<LogRow("A", 10, 1)>>, MaxRevenueRows),
     shitcode : FramesOf(<<LogRow("B", 50, 5)>>, MaxRevenueRows)]

PeriodsOf(source) ==
    CASE source = "ts" -> TsPeriods
      [] source = "pos" -> FramesOf(PosKinds, MaxRows)
      [] source = "shitcode" -> FramesOf(ShitCodeKinds, MaxRows)
      [] source = "staking" -> StakingPeriods
      [] source = "defi" -> FramesOf(DefiKinds, MaxRows)
      [] OTHER -> RevenuePeriods

MetricSources == {"ts", "pos", "shitcode", "staking", "defi", "revenue"}

InitMetrics ==
    /\ request = [start_date |-> 2, end_date |-> 2]
    /\ table = {}
    /\ resp = NoResp
    /\ \E source \in MetricSources :
           frames \in [source : {source}, current : PeriodsOf(source),
                       prev : PeriodsOf(source)]
    /\ metrics = NoMetrics
    /\ board_in = NoBoard
    /\ board = NoBoard
    /\ IdleDaily /\ IdleAnomaly /\ IdlePool /\ IdleCache

Respond(source, metrics_current, metrics_prev, merged) ==
    /\ frames.source = source
    /\ metrics.source = "none"
    /\ metrics' = [source |-> source, current |-> metrics_current,
                   prev |-> metrics_prev, m |-> merged]
    /\ UNCHANGED <<windowVars, frames, rankVars, dailyVars, anomalyVars,
                   poolVars, cacheVars>>

\* calculate_ts_sql: the two period queries and _merge_metrics
ts_metrics ==
    LET metrics_current ==
            fetch_period_metrics_sql(frames.current.rows,
                                     frames.current.avg_price, frames.current.ok)
        metrics_prev ==
            fetch_period_metrics_sql(frames.prev.rows,
                                     frames.prev.avg_price, frames.prev.ok)
    IN  Respond("ts", metrics_current, metrics_prev,
                merge_metrics(metrics_current, metrics_prev))

\* pos._compute_metrics
pos_compute_metrics ==
    LET metrics_current == pos_compute_period_metrics(frames.current)
        metrics_prev == pos_compute_period_metrics(frames.prev)
    IN  Respond("pos", metrics_current, metrics_prev,
                DeltaTriples(metrics_current, metrics_prev))

\* shitcode._compute_metrics
shitcode_metrics ==
    LET metrics_current == shitcode_compute_period_metrics(frames.current)
        metrics_prev == shitcode_compute_period_metrics(frames.prev)
    IN  Respond("shitcode", metrics_current, metrics_prev,
                shitcode_compute_metrics(metrics_current, metrics_prev))

\* staking._compute_metrics
staking_compute_metrics ==
    LET metrics_current ==
            staking_period_metrics(frames.current.amount, frames.current.log)
        metrics_prev ==
            staking_period_metrics(frames.prev.amount, frames.prev.log)
    IN  Respond("staking", metrics_current, metrics_prev,
                DeltaTriples(metrics_current, metrics_prev))

\* defi._compute_metrics
defi_compute_metrics ==
    LET metrics_current == defi_compute_period_metrics(frames.current)
        metrics_prev == defi_compute_period_metrics(frames.prev)
    IN  Respond("defi", metrics_current, metrics_prev,
                DeltaTriples(metrics_current, metrics_prev))

\* revenue._compute_metrics
revenue_compute_metrics ==
    LET Period(p) ==
            revenue_compute_period_metrics(p.ts, p.pos, p.staking, p.shitcode)
        metrics_current == Period(frames.current)
        metrics_prev == Period(frames.prev)
    IN  Respond("revenue", metrics_current, metrics_prev,
                DeltaTriples(metrics_current, metrics_prev))

NextMetrics ==
    \/ ts_metrics
    \/ pos_compute_metrics
    \/ shitcode_metrics
    \/ staking_compute_metrics
    \/ defi_compute_metrics
    \/ revenue_compute_metrics

SpecMetrics == InitMetrics /\ [][NextMetrics]_vars

-----------------------------------------------------------------------------
(* The leaderboards (SpecRank): _fetch_top_users_sql, pos and shitcode      *)
(* _calculate_top_users, _calculate_top_stakers.                            *)

top_n == 10

Min(a, b) == IF a <= b THEN a ELSE b
Max(a, b) == IF a >= b THEN a ELSE b

\* addr[:4] and addr[-4:]
First4(addr) == SubSeq(addr, 1, Min(4, Len(addr)))
Last4(addr) == SubSeq(addr, Max(1, Len(addr) - 3), Len(addr))

\* The mask that keeps six characters of each end
mask_address_Six(addr) ==
    SubSeq(addr, 1, Min(6, Len(addr))) \o "..."
        \o SubSeq(addr, Max(1, Len(addr) - 5), Len(addr))

\* f"{addr[:4]}...{addr[-4:]}"
mask_address(addr) == First4(addr) \o "..." \o Last4(addr)

\* df.groupby(key)[value] with sum and size: one group for each key
GroupBy(df, key, value) ==
    {[fullAddress |-> a,
      sum |-> SeqSum(Col(Where(df, key, a), value)),
      count |-> Len(Where(df, key, a))] :
        a \in {df[i][key] : i \in 1 .. Len(df)}}

\* sort_values(by the sum, ascending=False) with the default quicksort, and
\* ORDER BY shitSent DESC: every order of the groups in which the sums do not
\* increase; the order of groups with equal sums is not determined
RECURSIVE SortValues(_)
SortValues(groups) ==
    IF groups = {} THEN {<<>>}
    ELSE LET largest == {g \in groups : \A h \in groups : h.sum <= g.sum}
         IN  UNION {{<<g>> \o rest : rest \in SortValues(groups \ {g})} :
                       g \in largest}

\* head(n) that keeps every row
head_All(df, n) == df

\* DataFrame.head(n), LIMIT n
head(df, n) == SubSeq(df, 1, Min(n, Len(df)))

\* The rows of the aggregate query of _fetch_top_users_sql, before ORDER BY
TopUsersGroups(rows) ==
    LET IsClaim(r) == r.amount \in {500, 1500}
        claims == SelectSeq(rows, IsClaim)
    IN  {LET OfUser(r) == r.to_user = a
             mine == SelectSeq(claims, OfUser)
         IN  [fullAddress |-> a,
              sum |-> SeqSum([i \in 1 .. Len(mine) |-> mine[i].amount]),
              count |-> Len(mine)] :
            a \in {claims[i].to_user : i \in 1 .. Len(claims)}}

\* _fetch_top_users_sql for one order of the query's rows
fetch_top_users_sql(ordered, ok) ==
    IF ~ok THEN <<>>
    ELSE LET df == head(ordered, top_n)
         IN  [i \in 1 .. Len(df) |->
                 [fullAddress |-> df[i].fullAddress,
                  shitSent |-> df[i].sum,
                  txCount |-> df[i].count,
                  address |-> mask_address(df[i].fullAddress)]]

\* pos._calculate_top_users for one order of the sorted groups
pos_top_users(df_pos, ordered) ==
    IF Len(df_pos) = 0 THEN <<>>
    ELSE LET user_stats == head(ordered, top_n)
         IN  [i \in 1 .. Len(user_stats) |->
                 [address |-> mask_address(user_stats[i].fullAddress),
                  fullAddress |-> user_stats[i].fullAddress,
                  shitSent |-> user_stats[i].sum,
                  txCount |-> user_stats[i].count]]

\* shitcode._calculate_top_users for one order of the sorted groups
shitcode_top_users(df, ordered) ==
    IF Len(df) = 0 THEN <<>>
    ELSE LET user_stats == head(ordered, top_n)
         IN  [i \in 1 .. Len(user_stats) |->
                 [address |-> mask_address(user_stats[i].fullAddress),
                  fullAddress |-> user_stats[i].fullAddress,
                  claimCount |-> user_stats[i].count,
                  claimAmount |-> user_stats[i].sum]]

\* _calculate_top_stakers for one order of the sorted groups
top_stakers(df_amount, ordered) ==
    IF Len(df_amount) = 0 THEN <<>>
    ELSE LET staker_stats == head(ordered, top_n)
         IN  [i \in 1 .. Len(staker_stats) |->
                 [address |-> mask_address(staker_stats[i].fullAddress),
                  fullAddress |-> staker_stats[i].fullAddress,
                  amount |-> staker_stats[i].sum]]

MaxEntities == 11

\* The addresses of the rows, in the order of their first rows
Pool ==
    <<"9vMJfxuKxXBoEa7rM12mYLMwTacLMLDJqHozw96WQL8i",
      "4Nd1mBQtrMJVYVfKf2PJy9NZUZdTAsp7D4xWLs4gDB4T",
      "Wolf42",
      "7xKXtg2CW87d97TXJSDpbD5jBkheTqA83TZRuJosgAsU",
      "DRpbCBMxVnDK7maPM5tGv6MvB3v1sRMC86PZ8okm21hy",
      "abc",
      "3h1zGmCwsRJnVk5BuRNMLsPaQu1y2aqXqXDWYCgrp5UG",
      "EPjFWdd5AufqSSqeM2qN1xzybapC8G4wEGGkZwyTDt1v",
      "6sbzC1eH4FTujJXWj51eQe25cYvr4xfXbJ1vAj7j2k5J",
      "HZ1JovNiVvGrGNiiYvEozEVgZ58xaU3RKwX8eACQBCt3",
      "2ojv9BAiHUrvsm9gxDe7fJSzbNZSJcxZvf8dqmWGHG8S",
      "BQcdHdAQW1hczDbBi9hiegXAR7A98Q9jx3X3iBBBDiq4">>

\* The weight of each entity's rows
Weights == <<5, 12, 3, 9, 11, 2, 7, 10, 4, 8, 6, 1>>

\* The weights of n entities, entity tie[2] given the weight of entity tie[1]
WeightOf(i, tie) == IF i = tie[2] THEN Weights[tie[1]] ELSE Weights[i]

Ties(n) == {<<0, 0>>} \cup {t \in (1 .. n) \X (1 .. n) : t[1] < t[2]}

RECURSIVE Concat(_)
Concat(seqs) == IF seqs = <<>> THEN <<>> ELSE Head(seqs) \o Concat(Tail(seqs))

\* A sheet log of n entities with one row each, and a later row of one
SheetRows(n, tie, extra) ==
    [i \in 1 .. n |-> LogRow(Pool[i], 10 * WeightOf(i, tie), 0)]
        \o (IF extra = 0 THEN <<>> ELSE <<LogRow(Pool[extra], 10, 0)>>)

StakeTypes == {"stake", "unstake", "alternate"}

TypeOf(i, types) ==
    CASE types = "stake" -> "STAKE"
      [] types = "unstake" -> "UNSTAKE"
      [] OTHER -> IF i % 2 = 1 THEN "STAKE" ELSE "UNSTAKE"

AmountRows(n, tie, extra, types) ==
    [i \in 1 .. n |->
        AmountRow(TypeOf(i, types), Pool[i], 10 * WeightOf(i, tie))]
        \o (IF extra = 0 THEN <<>>
            ELSE <<AmountRow(TypeOf(1, types), Pool[extra], 10)>>)

\* The reward rows of one entity: claims of 1500 and 500 that sum to
\* 500 * weight, after a referral row
ClaimRows(user, weight) ==
    <<TsRow(50, user, 0)>>
        \o [k \in 1 .. (weight \div 3) |-> TsRow(1500, user, 3)]
        \o [k \in 1 .. (weight % 3) |-> TsRow(500, user, 1)]

TsRows(n, tie, extra) ==
    Concat([i \in 1 .. n |-> ClaimRows(Pool[i], WeightOf(i, tie))])
        \o (IF extra = 0 THEN <<>> ELSE <<TsRow(500, Pool[extra], 1)>>)

\* The inputs of the leaderboards, of n ranked entities
BoardInputsOf(n) ==
    {[source |-> "ts", rows |-> TsRows(n, tie, extra), ok |-> ok] :
        tie \in Ties(n), extra \in 0 .. n, ok \in BOOLEAN}
    \cup
    {[source |-> src, rows |-> SheetRows(n, tie, extra), ok |-> TRUE] :
        tie \in Ties(n), extra \in 0 .. n, src \in {"pos", "shitcode"}}
    \cup
    {[source |-> "staking", rows |-> AmountRows(n, tie, extra, types),
      ok |-> TRUE] :
        tie \in Ties(n), extra \in 0 .. n, types \in StakeTypes}

InitRank ==
    /\ request = [start_date |-> 2, end_date |-> 2]
    /\ table = {}
    /\ resp = NoResp
    /\ frames = NoFrames
    /\ metrics = NoMetrics
    /\ \E n \in 0 .. MaxEntities : board_in \in BoardInputsOf(n)
    /\ board = NoBoard
    /\ IdleDaily /\ IdleAnomaly /\ IdlePool /\ IdleCache

Rank(source, list) ==
    /\ board.source = "none"
    /\ board' = [source |-> source, list |-> list]
    /\ UNCHANGED <<windowVars, metricVars, board_in, dailyVars, anomalyVars,
                   poolVars, cacheVars>>

\* _fetch_top_users_sql
fetch_top_users ==
    /\ board_in.source = "ts"
    /\ \E ordered \in SortValues(TopUsersGroups(board_in.rows)) :
           Rank("ts", fetch_top_users_sql(ordered, board_in.ok))

\* pos._calculate_top_users
pos_calculate_top_users ==
    /\ board_in.source = "pos"
    /\ \E ordered \in SortValues(GroupBy(board_in.rows, "Receiver Address",
                                         "SHIT Sent")) :
           Rank("pos", pos_top_users(board_in.rows, ordered))

\* shitcode._calculate_top_users
shitcode_calculate_top_users ==
    /\ board_in.source = "shitcode"
    /\ \E ordered \in SortValues(GroupBy(board_in.rows, "Receiver Address",
                                         "SHIT Sent")) :
           Rank("shitcode", shitcode_top_users(board_in.rows, ordered))

\* staking._calculate_top_stakers
calculate_top_stakers ==
    /\ board_in.source = "staking"
    /\ \E ordered \in SortValues(GroupBy(Where(board_in.rows, "Type", "STAKE"),
                                         "Address", "SHIT Amount")) :
           Rank("staking", top_stakers(board_in.rows, ordered))

NextRank ==
    \/ fetch_top_users
    \/ pos_calculate_top_users
    \/ shitcode_calculate_top_users
    \/ calculate_top_stakers

SpecRank == InitRank /\ [][NextRank]_vars

-----------------------------------------------------------------------------
(* The daily series and the revenue composition (SpecDaily):                *)
(* pos._calculate_daily_data, ts._fetch_daily_data_sql and                  *)
(* revenue._calculate_daily_data, _calculate_composition.                   *)

TIMESTAMP_COL == "Timestamp(UTC+8)"

\* ts.hour
hour(ts) == (ts % MinPerDay) \div 60

\* ts.strftime('%Y-%m-%d'): the civil date of the timestamp
strftime_date(ts) == ts \div MinPerDay

\* The date of block_time_dt read in UTC+8
SqlDate_Shanghai(dt) == (dt + Timedelta_hours(8)) \div MinPerDay

\* DATE(block_time_dt)
SqlDate(dt) == dt \div MinPerDay

\* The label of a row that takes the boundary hour itself to the day before
business_date_Inclusive(ts, boundary_hour) ==
    IF hour(ts) <= boundary_hour
    THEN strftime_date(ts - Timedelta_days(1))
    ELSE strftime_date(ts)

\* lambda ts: (ts - pd.Timedelta(days=1)).strftime('%Y-%m-%d')
\*            if ts.hour < boundary_hour else ts.strftime('%Y-%m-%d')
business_date(ts, boundary_hour) ==
    IF hour(ts) < boundary_hour
    THEN strftime_date(ts - Timedelta_days(1))
    ELSE strftime_date(ts)

\* apply_boundary(df, boundary_hour): the frame with its 'date' column
apply_boundary(df, boundary_hour) ==
    [i \in 1 .. Len(df) |->
        [k \in DOMAIN df[i] \cup {"date"} |->
            IF k = "date"
            THEN business_date(df[i][TIMESTAMP_COL], boundary_hour)
            ELSE df[i][k]]]

\* df[TIMESTAMP_COL].dt.strftime('%Y-%m-%d') as the 'date' column
own_date(df) ==
    [i \in 1 .. Len(df) |->
        [k \in DOMAIN df[i] \cup {"date"} |->
            IF k = "date" THEN strftime_date(df[i][TIMESTAMP_COL])
            ELSE df[i][k]]]

\* sorted(dates), and the keys of a groupby in their order
RECURSIVE Sorted(_)
Sorted(dates) ==
    IF dates = {} THEN <<>>
    ELSE LET first == CHOOSE d \in dates : \A e \in dates : d <= e
         IN  <<first>> \o Sorted(dates \ {first})

\* df.groupby('date')[name].sum(): a Series indexed by date
DailySum(df, name) ==
    [d \in {df[i]["date"] : i \in 1 .. Len(df)} |->
        SeqSum(Col(Where(df, "date", d), name))]

\* Series.get(date, 0)
SeriesGet(series, date) ==
    IF date \in DOMAIN series THEN series[date] ELSE 0

\* pd.Series()
EmptySeries == [d \in {} |-> 0]

\* A POS series reindexed over every day from its first to its last label
pos_calculate_daily_data_Reindexed(df_pos) ==
    IF Len(df_pos) = 0 THEN <<>>
    ELSE
    LET df == apply_boundary(df_pos, 12)
        shit == DailySum(df, "SHIT Sent")
        sol == DailySum(df, "SOL Received")
        first == CHOOSE d \in DOMAIN shit : \A e \in DOMAIN shit : d <= e
        last == CHOOSE d \in DOMAIN shit : \A e \in DOMAIN shit : d >= e
        dates == Sorted(first .. last)
    IN  [i \in 1 .. Len(dates) |->
            [date |-> dates[i], shitSent |-> SeriesGet(shit, dates[i]),
             solReceived |-> SeriesGet(sol, dates[i])]]

\* pos._calculate_daily_data(df_pos)
pos_calculate_daily_data(df_pos) ==
    IF Len(df_pos) = 0 THEN <<>>
    ELSE
    LET df == apply_boundary(df_pos, 12)
        shit == DailySum(df, "SHIT Sent")
        sol == DailySum(df, "SOL Received")
        dates == Sorted(DOMAIN shit)
    IN  [i \in 1 .. Len(dates) |->
            [date |-> dates[i], shitSent |-> shit[dates[i]],
             solReceived |-> sol[dates[i]]]]

\* A daily revenue series whose total leaves the point-code revenue out
revenue_calculate_daily_data_NoShitCode(df_ts, df_pos, df_staking, df_shitcode) ==
    LET ts_daily ==
            IF Len(df_ts) > 0
            THEN DailySum(apply_boundary(df_ts, 8), "SOL_Received")
            ELSE EmptySeries
        pos_daily ==
            IF Len(df_pos) > 0
            THEN DailySum(apply_boundary(df_pos, 12), "SOL Received")
            ELSE EmptySeries
        staking_daily ==
            IF Len(df_staking) > 0
            THEN DailySum(own_date(df_staking), "SOL Received")
            ELSE EmptySeries
        shitcode_daily ==
            IF Len(df_shitcode) > 0
            THEN DailySum(own_date(df_shitcode), "SOL Received")
            ELSE EmptySeries
        all_dates ==
            Sorted(DOMAIN ts_daily \cup DOMAIN pos_daily
                       \cup DOMAIN staking_daily \cup DOMAIN shitcode_daily)
    IN  [i \in 1 .. Len(all_dates) |->
            LET date == all_dates[i]
            IN  [date |-> date,
                 tsRevenue |-> SeriesGet(ts_daily, date),
                 posRevenue |-> SeriesGet(pos_daily, date),
                 stakingRevenue |-> SeriesGet(staking_daily, date),
                 shitCodeRevenue |-> SeriesGet(shitcode_daily, date),
                 totalRevenue |->
                     SeriesGet(ts_daily, date) + SeriesGet(pos_daily, date)
                         + SeriesGet(staking_daily, date)]]

\* revenue._calculate_daily_data(df_ts, df_pos, df_staking, df_shitcode)
revenue_calculate_daily_data(df_ts, df_pos, df_staking, df_shitcode) ==
    LET ts_daily ==
            IF Len(df_ts) > 0
            THEN DailySum(apply_boundary(df_ts, 8), "SOL_Received")
            ELSE EmptySeries
        pos_daily ==
            IF Len(df_pos) > 0
            THEN DailySum(apply_boundary(df_pos, 12), "SOL Received")
            ELSE EmptySeries
        staking_daily ==
            IF Len(df_staking) > 0
            THEN DailySum(own_date(df_staking), "SOL Received")
            ELSE EmptySeries
        shitcode_daily ==
            IF Len(df_shitcode) > 0
            THEN DailySum(own_date(df_shitcode), "SOL Received")
            ELSE EmptySeries
        all_dates ==
            Sorted(DOMAIN ts_daily \cup DOMAIN pos_daily
                       \cup DOMAIN staking_daily \cup DOMAIN shitcode_daily)
    IN  [i \in 1 .. Len(all_dates) |->
            LET date == all_dates[i]
            IN  [date |-> date,
                 tsRevenue |-> SeriesGet(ts_daily, date),
                 posRevenue |-> SeriesGet(pos_daily, date),
                 stakingRevenue |-> SeriesGet(staking_daily, date),
                 shitCodeRevenue |-> SeriesGet(shitcode_daily, date),
                 totalRevenue |->
                     SeriesGet(ts_daily, date) + SeriesGet(pos_daily, date)
                         + SeriesGet(staking_daily, date)
                         + SeriesGet(shitcode_daily, date)]]

\* The rows of take_a_SHIT with start <= block_time_dt < end
TsWindowRows(rows, start_utc, end_utc) ==
    LET InWindow(r) ==
            /\ r.block_time_dt >= SqlDatetime(strftime(start_utc))
            /\ r.block_time_dt < SqlDatetime(strftime(end_utc))
    IN  SelectSeq(rows, InWindow)

\* _fetch_daily_data_sql(engine, start_utc, end_utc)
fetch_daily_data_sql(rows, start_utc, end_utc, ok) ==
    IF ~ok THEN <<>>
    ELSE
    LET sel == TsWindowRows(rows, start_utc, end_utc)
        dates == Sorted({SqlDate(sel[i].block_time_dt) : i \in 1 .. Len(sel)})
        OfDate(d) ==
            LET On(r) == SqlDate(r.block_time_dt) = d IN SelectSeq(sel, On)
    IN  [i \in 1 .. Len(dates) |->
            LET day == OfDate(dates[i])
            IN  [date |-> dates[i],
                 txCount |-> Len(day),
                 shitSent |-> SeqSum([j \in 1 .. Len(day) |-> day[j].amount]),
                 solReceived |->
                     SeqSum([j \in 1 .. Len(day) |->
                                day[j].SolSentToTreasury])]]

\* A staking series over the dates of the stake rows alone
staking_calculate_daily_data_StakeDates(df_amount, df_log) ==
    LET stake_agg ==
            DailySum(own_date(Where(df_amount, "Type", "STAKE")),
                     "SHIT Amount")
        reward_agg == DailySum(own_date(df_log), "SHIT Sent")
        all_dates == Sorted(DOMAIN stake_agg)
    IN  [i \in 1 .. Len(all_dates) |->
            [date |-> all_dates[i],
             stake |-> SeriesGet(stake_agg, all_dates[i]),
             rewards |-> SeriesGet(reward_agg, all_dates[i])]]

\* staking._calculate_daily_data(df_amount, df_log)
staking_calculate_daily_data(df_amount, df_log) ==
    LET stake_agg ==
            DailySum(own_date(Where(df_amount, "Type", "STAKE")),
                     "SHIT Amount")
        reward_agg == DailySum(own_date(df_log), "SHIT Sent")
        all_dates == Sorted(DOMAIN stake_agg \cup DOMAIN reward_agg)
    IN  [i \in 1 .. Len(all_dates) |->
            [date |-> all_dates[i],
             stake |-> SeriesGet(stake_agg, all_dates[i]),
             rewards |-> SeriesGet(reward_agg, all_dates[i])]]

\* shitcode._calculate_daily_data(df)
shitcode_calculate_daily_data(df) ==
    IF Len(df) = 0 THEN <<>>
    ELSE
    LET data == own_date(df)
        amount == DailySum(data, "SHIT Sent")
        sol == DailySum(data, "SOL Received")
        dates == Sorted(DOMAIN amount)
    IN  [i \in 1 .. Len(dates) |->
            [date |-> dates[i],
             claimCount |-> Len(Where(data, "date", dates[i])),
             claimAmount |-> amount[dates[i]],
             solReceived |-> sol[dates[i]]]]

\* groupby(['date', 'Activity'])['USDT Change'] abs().sum(), 0.0 when the
\* date has no row of the activity
ActivitySum(data, date, activity) ==
    SeqSum(AbsCol(Col(Where(Where(data, "date", date), "Activity", activity),
                      "USDT Change")))

\* defi._calculate_daily_data(df)
defi_calculate_daily_data(df) ==
    IF Len(df) = 0 THEN <<>>
    ELSE
    LET data == own_date(df)
        InTsRange(r) ==
            /\ r["Activity"] = "SELL"
            /\ Abs(r["SHIT Change"]) >= 13000
            /\ Abs(r["SHIT Change"]) <= 20000
        ts_sell_data == SelectSeq(data, InTsRange)
        dates == Sorted({data[i]["date"] : i \in 1 .. Len(data)})
    IN  [i \in 1 .. Len(dates) |->
            [date |-> dates[i],
             buyUsdt |-> ActivitySum(data, dates[i], "BUY"),
             sellUsdt |-> ActivitySum(data, dates[i], "SELL"),
             netFlow |-> ActivitySum(data, dates[i], "BUY")
                             - ActivitySum(data, dates[i], "SELL"),
             liqAddUsdt |-> ActivitySum(data, dates[i], "LIQ_ADD"),
             liqRemoveUsdt |-> ActivitySum(data, dates[i], "LIQ_REMOVE"),
             tsSellUsdt |-> ActivitySum(ts_sell_data, dates[i], "SELL")]]

\* The composition filter that keeps every source with no loss
is_positive_OrZero(amount) == amount.n >= 0

\* if amount > 0
is_positive(amount) == amount.n > 0

\* result.sort(key=lambda x: x['amount'], reverse=True): list.sort is stable
InsertByAmount(sorted, x) ==
    LET k == Cardinality({i \in 1 .. Len(sorted) :
                             sorted[i].amount.n >= x.amount.n})
    IN  SubSeq(sorted, 1, k) \o <<x>> \o SubSeq(sorted, k + 1, Len(sorted))

RECURSIVE SortByAmount(_)
SortByAmount(result) ==
    IF result = <<>> THEN <<>>
    ELSE InsertByAmount(SortByAmount(SubSeq(result, 1, Len(result) - 1)),
                        result[Len(result)])

\* revenue._calculate_composition(df_ts, df_pos, df_staking, df_shitcode)
revenue_calculate_composition(df_ts, df_pos, df_staking, df_shitcode) ==
    LET period ==
            revenue_compute_period_metrics(df_ts, df_pos, df_staking,
                                           df_shitcode)
        composition_data ==
            <<[source |-> "TS", amount |-> period.tsRevenue],
              [source |-> "POS", amount |-> period.posRevenue],
              [source |-> "Staking", amount |-> period.stakingRevenue],
              [source |-> "ShitCode", amount |-> period.shitCodeRevenue]>>
        Shown(entry) == is_positive(entry.amount)
    IN  SortByAmount(SelectSeq(composition_data, Shown))

MaxDailyRows == 2

\* The UTC instants of the rows of the daily series
DailyInstants == {d * MinPerDay + m : d \in 1 .. 2, m \in ClockMarks}

\* The non-decreasing sequences of at most n row instants
DailyStamps(n) ==
    UNION {{s \in [1 .. len -> DailyInstants] :
               \A i \in 1 .. (len - 1) : s[i] <= s[i + 1]} : len \in 0 .. n}

\* A row of a sheet log with its timestamp
StampedRow(ts, shit, sol) ==
    [k \in {TIMESTAMP_COL, "SHIT Sent", "SOL Received"} |->
        CASE k = TIMESTAMP_COL -> ts
          [] k = "SHIT Sent" -> shit
          [] OTHER -> sol]

\* A row of a sheet frame with its timestamp column
Stamped(row, ts) ==
    [k \in DOMAIN row \cup {TIMESTAMP_COL} |->
        IF k = TIMESTAMP_COL THEN ts ELSE row[k]]

\* The rows of Staking_Amount_Log and of Liq_Pool_Activity by position
StakeKindAt(i) ==
    IF i % 2 = 1 THEN AmountRow("STAKE", "A", 100)
    ELSE AmountRow("UNSTAKE", "A", 40)

DefiKindAt(i) ==
    CASE i % 3 = 1 -> DefiRow("BUY", 100, -5)
      [] i % 3 = 2 -> DefiRow("SELL", -15000, 600)
      [] OTHER -> DefiRow("LIQ_ADD", 0, 50)

\* A row of the frame load_ts_log_from_db returns
TsFrameRow(block_time_dt, sol) ==
    [k \in {TIMESTAMP_COL, "SOL_Received"} |->
        IF k = TIMESTAMP_COL THEN TzConvertShanghai(block_time_dt) ELSE sol]

\* A row of the table take_a_SHIT
TsTableRow(block_time_dt, sol) ==
    [block_time_dt |-> block_time_dt, to_user |-> "A", amount |-> 500,
     SolSentToTreasury |-> sol]

\* 2^k
RECURSIVE Pow2(_)
Pow2(k) == IF k = 0 THEN 1 ELSE 2 * Pow2(k - 1)

\* The inputs whose rows happened at the instants s
DailyInputsAt(s) ==
    {[source |-> "ts",
      request |-> req,
      rows |-> [i \in 1 .. Len(s) |-> TsTableRow(s[i], Pow2(i - 1))],
      ok |-> ok] :
        req \in [start_date : 1 .. 2, end_date : 1 .. 2], ok \in BOOLEAN}
    \cup
    {[source |-> "pos",
      rows |-> [i \in 1 .. Len(s) |->
                   StampedRow(SheetTimestamp(s[i]), 10 * i, Pow2(i - 1))]]}
    \cup
    {[source |-> "revenue",
      ts |-> [i \in 1 .. Len(s) |-> TsFrameRow(s[i], 100 * Pow2(i - 1))],
      pos |-> pos, staking |-> staking, shitcode |-> shitcode] :
        pos \in {<<>>,
                 <<StampedRow(2 * MinPerDay + 11 * 60 + 59, 10, 100)>>,
                 <<StampedRow(2 * MinPerDay + 12 * 60, 10, 100)>>},
        staking \in {<<>>, <<StampedRow(2 * MinPerDay + 30, 10, 50)>>},
        shitcode \in {<<>>, <<StampedRow(2 * MinPerDay + 30, 10, -5)>>,
                      <<StampedRow(MinPerDay + 23 * 60, 10, 50)>>}}
    \cup
    {[source |-> "staking",
      amount |-> [i \in 1 .. Len(s) |->
                     Stamped(StakeKindAt(i), SheetTimestamp(s[i]))],
      log |-> log] :
        log \in {<<>>, <<StampedRow(2 * MinPerDay + 30, 10, 1)>>}}
    \cup
    {[source |-> "shitcode",
      rows |-> [i \in 1 .. Len(s) |->
                   StampedRow(SheetTimestamp(s[i]), 10 * i, Pow2(i - 1))]]}
    \cup
    {[source |-> "defi",
      rows |-> [i \in 1 .. Len(s) |->
                   Stamped(DefiKindAt(i), SheetTimestamp(s[i]))]]}

InitDaily ==
    /\ request = [start_date |-> 2, end_date |-> 2]
    /\ table = {}
    /\ resp = NoResp
    /\ frames = NoFrames
    /\ metrics = NoMetrics
    /\ board_in = NoBoard
    /\ board = NoBoard
    /\ \E s \in DailyStamps(MaxDailyRows) : daily_in \in DailyInputsAt(s)
    /\ daily = NoDaily
    /\ IdleAnomaly /\ IdlePool /\ IdleCache

Series(source, series, composition) ==
    /\ daily.source = "none"
    /\ daily' = [source |-> source, series |-> series,
                 composition |-> composition]
    /\ UNCHANGED <<windowVars, metricVars, rankVars, daily_in, anomalyVars,
                   poolVars, cacheVars>>

\* ts._fetch_daily_data_sql over the current window of calculate_ts_sql
fetch_daily_data ==
    /\ daily_in.source = "ts"
    /\ LET w == TsSqlWindow(daily_in.request)
       IN  Series("ts",
                  fetch_daily_data_sql(daily_in.rows, w.current_start,
                                       w.current_end, daily_in.ok),
                  <<>>)

\* pos._calculate_daily_data
pos_daily_data ==
    /\ daily_in.source = "pos"
    /\ Series("pos", pos_calculate_daily_data(daily_in.rows), <<>>)

\* revenue.calculate_revenue: dailyData and composition
revenue_daily_data ==
    /\ daily_in.source = "revenue"
    /\ Series("revenue",
              revenue_calculate_daily_data(daily_in.ts, daily_in.pos,
                                           daily_in.staking,
                                           daily_in.shitcode),
              revenue_calculate_composition(daily_in.ts, daily_in.pos,
                                            daily_in.staking,
                                            daily_in.shitcode))

\* staking._calculate_daily_data
staking_daily_data ==
    /\ daily_in.source = "staking"
    /\ Series("staking",
              staking_calculate_daily_data(daily_in.amount, daily_in.log),
              <<>>)

\* shitcode._calculate_daily_data
shitcode_daily_data ==
    /\ daily_in.source = "shitcode"
    /\ Series("shitcode", shitcode_calculate_daily_data(daily_in.rows), <<>>)

\* defi._calculate_daily_data
defi_daily_data ==
    /\ daily_in.source = "defi"
    /\ Series("defi", defi_calculate_daily_data(daily_in.rows), <<>>)

NextDaily ==
    \/ fetch_daily_data
    \/ pos_daily_data
    \/ revenue_daily_data
    \/ staking_daily_data
    \/ shitcode_daily_data
    \/ defi_daily_data

SpecDaily == InitDaily /\ [][NextDaily]_vars

-----------------------------------------------------------------------------
(* The anomalies of a day (SpecAnomaly) *)

\* db_loader.get_db_engine(): TRUE for an engine, FALSE for None
get_db_engine(env) ==
    /\ "DB_HOST" \in env
    /\ "DB_USER" \in env
    /\ {"DB_PASSWORD", "DB_PASS"} \cap env # {}

\* The orders in which the rows of a GROUP BY without ORDER BY may come
Orderings(groups) ==
    {s \in [1 .. Cardinality(groups) -> groups] :
        \A i, j \in 1 .. Cardinality(groups) : s[i] = s[j] => i = j}

\* The number of rows of a user that satisfy CASE WHEN ... THEN 1 ELSE 0
CountOf(sel, user, amounts, negate) ==
    Cardinality({i \in 1 .. Len(sel) :
                    /\ sel[i].to_user = user
                    /\ (sel[i].amount \in amounts) # negate})

\* A HAVING clause that selects an entity from 20 claims on
ts_having_FromTwenty(claims, draws) ==
    \/ draws > 3
    \/ claims >= 20
    \/ claims < 5 /\ draws >= 1
    \/ claims >= 5 /\ claims < 10 /\ draws >= 2
    \/ claims >= 10 /\ claims < 20 /\ draws = 3

\* HAVING draws > 3 OR claims > 20 OR ...
ts_having(claims, draws) ==
    \/ draws > 3
    \/ claims > 20
    \/ claims < 5 /\ draws >= 1
    \/ claims >= 5 /\ claims < 10 /\ draws >= 2
    \/ claims >= 10 /\ claims < 20 /\ draws = 3

\* The query of _detect_ts_anomalies_sql: its rows, as a set
ts_anomaly_query(rows, start_utc, end_utc) ==
    LET sel == TsWindowRows(rows, start_utc, end_utc)
        users == {sel[i].to_user : i \in 1 .. Len(sel)}
        Claims(u) == CountOf(sel, u, {500, 1500}, FALSE)
        Draws(u) == CountOf(sel, u, {500, 1500, 50, 150, 25, 75}, TRUE)
    IN  {[address |-> u, claims |-> Claims(u), draws |-> Draws(u)] :
            u \in {v \in users : ts_having(Claims(v), Draws(v))}}

\* A finding; the description repeats the counts of data and is left out
Finding(date_label, address, type, severity, data) ==
    [date |-> date_label, address |-> address, type |-> type,
     severity |-> severity, data |-> data]

\* The findings of one row that stop at nothing after a draw overflow
ts_row_findings_NoContinue(row, date_label) ==
    LET data == [luckyDraws |-> row.draws, claims |-> row.claims]
        is_logic_error ==
            \/ row.claims < 5 /\ row.draws >= 1
            \/ 5 <= row.claims /\ row.claims < 10 /\ row.draws >= 2
            \/ 10 <= row.claims /\ row.claims < 20 /\ row.draws = 3
    IN  (IF row.draws > 3
         THEN <<Finding(date_label, row.address, "TS_LUCKY_DRAW_OVER",
                        "high", data)>>
         ELSE <<>>)
        \o (IF row.claims > 20
            THEN <<Finding(date_label, row.address, "TS_OVER_CLAIM",
                           "medium", data)>>
            ELSE <<>>)
        \o (IF is_logic_error
            THEN <<Finding(date_label, row.address, "TS_LOGIC_ERROR",
                           "medium", data)>>
            ELSE <<>>)

\* The body of the loop of _detect_ts_anomalies_sql for one row
ts_row_findings(row, date_label) ==
    LET data == [luckyDraws |-> row.draws, claims |-> row.claims]
        is_logic_error ==
            \/ row.claims < 5 /\ row.draws >= 1
            \/ 5 <= row.claims /\ row.claims < 10 /\ row.draws >= 2
            \/ 10 <= row.claims /\ row.claims < 20 /\ row.draws = 3
    IN  IF row.draws > 3
        THEN <<Finding(date_label, row.address, "TS_LUCKY_DRAW_OVER", "high",
                       data)>>
        ELSE (IF row.claims > 20
              THEN <<Finding(date_label, row.address, "TS_OVER_CLAIM",
                             "medium", data)>>
              ELSE <<>>)
             \o (IF is_logic_error
                 THEN <<Finding(date_label, row.address, "TS_LOGIC_ERROR",
                                "medium", data)>>
                 ELSE <<>>)

\* res after the loop over the rows df
RECURSIVE ts_loop(_, _)
ts_loop(df, date_label) ==
    IF df = <<>> THEN <<>>
    ELSE ts_row_findings(Head(df), date_label)
             \o ts_loop(Tail(df), date_label)

\* _detect_ts_anomalies_sql(engine, start_utc, end_utc, date_label), df being
\* the rows of its query in the order they came and ok whether it executed
detect_ts_anomalies_sql(df, date_label, ok) ==
    IF ~ok THEN <<>> ELSE ts_loop(df, date_label)

\* A duplicate query without its HAVING clause
duplicate_query_NoHaving(rows, start_utc, end_utc) ==
    LET sel == TsWindowRows(rows, start_utc, end_utc)
        users == {sel[i].to_user : i \in 1 .. Len(sel)}
        Of(u) == LET Mine(r) == r.to_user = u IN SelectSeq(sel, Mine)
    IN  {[address |-> u, count |-> Len(Of(u)),
          amounts |-> [i \in 1 .. Len(Of(u)) |-> Of(u)[i].amount]] :
            u \in users}

\* The query of _detect_pos_anomalies_sql and _detect_staking_anomalies_sql
duplicate_query(rows, start_utc, end_utc) ==
    LET sel == TsWindowRows(rows, start_utc, end_utc)
        users == {sel[i].to_user : i \in 1 .. Len(sel)}
        Of(u) == LET Mine(r) == r.to_user = u IN SelectSeq(sel, Mine)
    IN  {[address |-> u, count |-> Len(Of(u)),
          amounts |-> [i \in 1 .. Len(Of(u)) |-> Of(u)[i].amount]] :
            u \in {v \in users : Len(Of(v)) > 1}}

\* A detector that reports the failure of its query as a finding of its own
duplicate_findings_FailureFinding(df, date_label, type, ok) ==
    IF ~ok
    THEN <<Finding(date_label, "", type, "high",
                   [count |-> 0, amounts |-> <<>>])>>
    ELSE [i \in 1 .. Len(df) |->
             Finding(date_label, df[i].address, type, "high",
                     [count |-> df[i].count, amounts |-> df[i].amounts])]

\* The loop of _detect_pos_anomalies_sql and _detect_staking_anomalies_sql
duplicate_findings(df, date_label, type, ok) ==
    IF ~ok THEN <<>>
    ELSE [i \in 1 .. Len(df) |->
             Finding(date_label, df[i].address, type, "high",
                     [count |-> df[i].count, amounts |-> df[i].amounts])]

\* _detect_pos_anomalies_sql(engine, start_utc, end_utc, date_label)
detect_pos_anomalies_sql(df, date_label, ok) ==
    duplicate_findings(df, date_label, "POS_DUPLICATE", ok)

\* _detect_staking_anomalies_sql(engine, start_utc, end_utc, date_label)
detect_staking_anomalies_sql(df, date_label, ok) ==
    duplicate_findings(df, date_label, "STAKING_DUPLICATE", ok)

\* len([a for a in anomalies if a["severity"] == severity])
SeverityCount(anomalies, severity) ==
    Cardinality({i \in 1 .. Len(anomalies) :
                    anomalies[i].severity = severity})

\* The summary of calculate_anomalies
Summary(anomalies) ==
    [totalCount |-> Len(anomalies),
     highRiskCount |-> SeverityCount(anomalies, "high"),
     mediumRiskCount |-> SeverityCount(anomalies, "medium"),
     lowRiskCount |-> SeverityCount(anomalies, "low")]

\* Windows that all start at 00:00 UTC of the day
AnomalyWindows_SameStart(date_str) ==
    LET base_dt == to_datetime(date_str)
    IN  [ts_start_utc |-> base_dt,
         ts_end_utc |-> base_dt + Timedelta_days(1),
         pos_start_utc |-> base_dt,
         pos_end_utc |-> base_dt + Timedelta_days(1),
         staking_start_utc |-> base_dt,
         staking_end_utc |-> base_dt + Timedelta_days(1)]

\* The windows of calculate_anomalies(date_str)
AnomalyWindows(date_str) ==
    LET base_dt == to_datetime(date_str)
    IN  [ts_start_utc |-> base_dt,
         ts_end_utc |-> base_dt + Timedelta_days(1),
         pos_start_utc |-> base_dt + Timedelta_hours(4),
         pos_end_utc |-> base_dt + Timedelta_hours(4) + Timedelta_days(1),
         staking_start_utc |-> base_dt + Timedelta_hours(4),
         staking_end_utc |->
             base_dt + Timedelta_hours(4) + Timedelta_days(1)]

MaxDraws == 4

\* The claim counts of the first user: the edges of the rule set
ClaimCounts == {0, 4, 5, 9, 10, 15, 19, 20, 21, 25}

\* n rows of a user, one minute apart from instant at in direction step
RowsAt(n, user, amount, at, step) ==
    [i \in 1 .. n |->
        [to_user |-> user, amount |-> amount,
         block_time_dt |-> at + step * (i - 1)]]

\* The tables take_a_SHIT of the inputs, for the day that starts at base
TsAnomalyTables(base, max_draws) ==
    {RowsAt(claims, "A", 500, base, 1)
         \o RowsAt(draws, "A", 1000, base + MinPerDay - 1, -1)
         \o RowsAt(1, "A", 50, base + 60, 1)
         \o other \o edge :
        claims \in ClaimCounts, draws \in 0 .. max_draws,
        other \in {<<>>, RowsAt(21, "B", 1500, base + 120, 1)},
        edge \in {<<>>, RowsAt(4, "C", 1000, base - 1, -1)
                            \o RowsAt(4, "C", 1000, base + MinPerDay, 1)}}

\* The tables shit_pos_rewards and shit_staking_rewards of the inputs
RewardTables(base) ==
    {<<>>,
     RowsAt(2, "A", 10, base + 4 * 60 - 1, 1)
         \o RowsAt(2, "B", 20, base + 4 * 60 + MinPerDay - 1, -1)
         \o RowsAt(2, "C", 30, base + 4 * 60, 1)}

AnomalyInputs(max_draws) ==
    UNION {
        {[status |-> "input", env |-> env, date_str |-> date_str,
          ts |-> ts, pos |-> pos, staking |-> staking,
          ok |-> [ts |-> ok_ts, pos |-> ok_pos, staking |-> ok_staking]] :
            ts \in TsAnomalyTables(to_datetime(date_str), max_draws),
            pos \in RewardTables(to_datetime(date_str)),
            staking \in {<<>>,
                         RowsAt(3, "A", 10,
                                to_datetime(date_str) + 4 * 60, 1)},
            ok_ts \in IF get_db_engine(env) THEN BOOLEAN ELSE {TRUE},
            ok_pos \in IF get_db_engine(env) THEN BOOLEAN ELSE {TRUE},
            ok_staking \in IF get_db_engine(env) THEN BOOLEAN ELSE {TRUE}}
        : env \in {{"DB_HOST", "DB_USER", "DB_PASSWORD"},
                   {"DB_USER", "DB_PASS"}},
          date_str \in 1 .. 2}

InitAnomaly ==
    /\ request = [start_date |-> 2, end_date |-> 2]
    /\ table = {}
    /\ resp = NoResp
    /\ frames = NoFrames
    /\ metrics = NoMetrics
    /\ board_in = NoBoard
    /\ board = NoBoard
    /\ IdleDaily
    /\ anomaly_in \in AnomalyInputs(MaxDraws)
    /\ findings = NoFindings
    /\ IdlePool /\ IdleCache

Report(status, summary, anomalies) ==
    /\ findings.status = "none"
    /\ findings' = [status |-> status, summary |-> summary,
                    anomalies |-> anomalies]
    /\ UNCHANGED <<windowVars, metricVars, rankVars, dailyVars, anomaly_in,
                   poolVars, cacheVars>>

\* calculate_anomalies(date_str) when get_db_engine() returns None
calculate_anomalies_no_engine ==
    /\ anomaly_in.status = "input"
    /\ ~get_db_engine(anomaly_in.env)
    /\ Report("returned",
              [totalCount |-> 0, highRiskCount |-> 0, mediumRiskCount |-> 0,
               lowRiskCount |-> 0],
              <<>>)

\* calculate_anomalies(date_str) with an engine
calculate_anomalies ==
    /\ anomaly_in.status = "input"
    /\ get_db_engine(anomaly_in.env)
    /\ LET w == AnomalyWindows(anomaly_in.date_str)
           date_label == anomaly_in.date_str
       IN  \E ts_df \in Orderings(ts_anomaly_query(anomaly_in.ts,
                                                   w.ts_start_utc,
                                                   w.ts_end_utc)),
              pos_df \in Orderings(duplicate_query(anomaly_in.pos,
                                                   w.pos_start_utc,
                                                   w.pos_end_utc)),
              staking_df \in Orderings(duplicate_query(anomaly_in.staking,
                                                       w.staking_start_utc,
                                                       w.staking_end_utc)) :
              LET ts_anomalies ==
                      detect_ts_anomalies_sql(ts_df, date_label,
                                              anomaly_in.ok.ts)
                  pos_anomalies ==
                      detect_pos_anomalies_sql(pos_df, date_label,
                                               anomaly_in.ok.pos)
                  staking_anomalies ==
                      detect_staking_anomalies_sql(staking_df, date_label,
                                                   anomaly_in.ok.staking)
                  anomalies ==
                      ts_anomalies \o pos_anomalies \o staking_anomalies
              IN  Report("returned", Summary(anomalies), anomalies)

NextAnomaly ==
    \/ calculate_anomalies_no_engine
    \/ calculate_anomalies

SpecAnomaly == InitAnomaly /\ [][NextAnomaly]_vars

-----------------------------------------------------------------------------
(* calculate_ts_sql and its pool of workers (SpecPool) *)

\* ThreadPoolExecutor(max_workers=4)
max_workers == 4

\* The four tasks, in the order calculate_ts_sql submits and collects them
TaskOrder == <<"curr", "prev", "daily", "top">>

PoolTasks == {"curr", "prev", "daily", "top"}

\* _get_empty_response()
get_empty_response == [metrics |-> EmptyDict, dailyData |-> <<>>,
                       topUsers |-> <<>>]

\* A Future.result() that hands back whatever is there
CanCollect_NoWait(task_state) == TRUE

\* Future.result(): blocks until the task is done
CanCollect(task_state) == task_state = "done"

\* What a task returns: the query function it runs, on the table of the
\* environment; ordered is the order of the rows of the top-users query
TaskResult(task, env, ordered) ==
    LET w == TsSqlWindow(env.request)
    IN  CASE task = "curr" ->
                fetch_period_metrics_sql(
                    TsWindowRows(env.rows, w.current_start, w.current_end),
                    env.avg_prices.current, env.ok.curr)
          [] task = "prev" ->
                fetch_period_metrics_sql(
                    TsWindowRows(env.rows, w.prev_start, w.prev_end),
                    env.avg_prices.prev, env.ok.prev)
          [] task = "daily" ->
                fetch_daily_data_sql(env.rows, w.current_start,
                                     w.current_end, env.ok.daily)
          [] task = "top" -> fetch_top_users_sql(ordered, env.ok.top)

\* A row of take_a_SHIT at an instant
PoolRow(block_time_dt, to_user, amount, sol) ==
    [block_time_dt |-> block_time_dt, to_user |-> to_user,
     amount |-> amount, SolSentToTreasury |-> sol]

\* The tables take_a_SHIT of the inputs: no rows, and rows in both periods
\* of the request of day 2 and after it
PoolTables ==
    {<<>>,
     <<PoolRow(MinPerDay + 60, "A", 500, 2),
       PoolRow(2 * MinPerDay, "A", 500, 2),
       PoolRow(2 * MinPerDay + 15 * 60, "B", 1500, 3),
       PoolRow(3 * MinPerDay - 1, "A", 7, 1),
       PoolRow(3 * MinPerDay, "B", 500, 2)>>}

PoolInputs ==
    UNION {
        {[pc |-> "input", env |-> env,
          request |-> [start_date |-> 2, end_date |-> 2],
          rows |-> rows,
          avg_prices |-> [prev |-> Num(1), current |-> Num(1)],
          ok |-> ok] :
            rows \in PoolTables,
            ok \in IF get_db_engine(env)
                   THEN [PoolTasks -> BOOLEAN]
                   ELSE {[t \in PoolTasks |-> TRUE]}}
        : env \in {{"DB_HOST", "DB_USER", "DB_PASSWORD"},
                   {"DB_USER", "DB_PASS"}}}

InitPool ==
    /\ request = [start_date |-> 2, end_date |-> 2]
    /\ table = {}
    /\ resp = NoResp
    /\ frames = NoFrames
    /\ metrics = NoMetrics
    /\ board_in = NoBoard
    /\ board = NoBoard
    /\ IdleDaily
    /\ IdleAnomaly
    /\ IdleCache
    /\ sql_env \in PoolInputs
    /\ pool = [pc |-> "start", k |-> 1,
               tasks |-> [t \in PoolTasks |-> "new"],
               results |-> [t \in PoolTasks |-> <<>>],
               locals |-> [t \in PoolTasks |-> <<>>],
               first_done |-> "none",
               response |-> <<>>]

PoolIdle ==
    UNCHANGED <<windowVars, metricVars, rankVars, dailyVars, anomalyVars,
                sql_env, cacheVars>>

\* calculate_ts_sql: engine = get_db_engine(); the dates and the prices
get_engine ==
    /\ pool.pc = "start"
    /\ IF get_db_engine(sql_env.env)
       THEN pool' = [pool EXCEPT !.pc = "submit"]
       ELSE pool' = [pool EXCEPT !.pc = "returned",
                                 !.response = get_empty_response]
    /\ PoolIdle

\* executor.submit(...)
submit ==
    /\ pool.pc = "submit"
    /\ pool' = [pool EXCEPT !.tasks[TaskOrder[pool.k]] = "queued",
                            !.k = IF pool.k < Len(TaskOrder) THEN pool.k + 1 ELSE 1,
                            !.pc = IF pool.k < Len(TaskOrder) THEN "submit" ELSE "result"]
    /\ PoolIdle

\* A worker thread takes a task from the queue
worker_start(task) ==
    /\ pool.pc # "none"
    /\ pool.tasks[task] = "queued"
    /\ Cardinality({t \in PoolTasks : pool.tasks[t] = "running"})
           < max_workers
    /\ pool' = [pool EXCEPT !.tasks[task] = "running"]
    /\ PoolIdle

\* The task of a worker thread returns and its future is set
worker_finish(task) ==
    /\ pool.pc # "none"
    /\ pool.tasks[task] = "running"
    /\ LET w == TsSqlWindow(sql_env.request)
       IN  \E ordered \in
               SortValues(TopUsersGroups(TsWindowRows(sql_env.rows,
                                                      w.current_start,
                                                      w.current_end))) :
               pool' = [pool EXCEPT
                           !.tasks[task] = "done",
                           !.results[task] =
                               TaskResult(task, sql_env, ordered),
                           !.first_done =
                               IF pool.first_done = "none" THEN task
                               ELSE pool.first_done]
    /\ PoolIdle

\* future.result()
result ==
    /\ pool.pc = "result"
    /\ CanCollect(pool.tasks[TaskOrder[pool.k]])
    /\ pool' = [pool EXCEPT
                   !.locals[TaskOrder[pool.k]] =
                       pool.results[TaskOrder[pool.k]],
                   !.k = IF pool.k < Len(TaskOrder) THEN pool.k + 1 ELSE 1,
                   !.pc = IF pool.k < Len(TaskOrder) THEN "result" ELSE "exit"]
    /\ PoolIdle

\* The end of the with block: executor.shutdown(wait=True)
executor_exit ==
    /\ pool.pc = "exit"
    /\ \A t \in PoolTasks : pool.tasks[t] = "done"
    /\ pool' = [pool EXCEPT !.pc = "merge"]
    /\ PoolIdle

\* final_metrics = _merge_metrics(...) and the return
merge_and_return ==
    /\ pool.pc = "merge"
    /\ pool' = [pool EXCEPT
                   !.pc = "returned",
                   !.response =
                       [metrics |-> merge_metrics(pool.locals["curr"],
                                                  pool.locals["prev"]),
                        dailyData |-> pool.locals["daily"],
                        topUsers |-> pool.locals["top"]]]
    /\ PoolIdle

NextPool ==
    \/ get_engine
    \/ submit
    \/ \E task \in PoolTasks : worker_start(task)
    \/ \E task \in PoolTasks : worker_finish(task)
    \/ result
    \/ executor_exit
    \/ merge_and_return

SpecPool == InitPool /\ [][NextPool]_vars

-----------------------------------------------------------------------------
(* SpecCache: DataCache.load_data and the calls that need the cache *)

\* the number of calls a behaviour of SpecCache makes
MaxCalls == 4

\* None, for _data, _last_update and a file that does not exist
None == 0

\* The singleton after __new__: no snapshot in memory; the two files of
\* .cache as the last process left them.  A snapshot is named by the time
\* at which it was fetched.
DataCache(cache_file, metadata_file) ==
    [data |-> None, last_update |-> None,
     cache_file |-> cache_file, metadata_file |-> metadata_file]

\* is_cached
is_cached(c) == c.data # None

\* has_disk_cache
has_disk_cache(c) == c.cache_file # None

\* What a call of load_data leaves: the cache, whether it raised, the value
\* it returned and whether it called load_sheet_data
Loaded(c, raised, value, fetched) ==
    [cache |-> c, raised |-> raised, value |-> value, fetched |-> fetched]

\* _save_to_disk(data) at time now: both files written, the data file
\* written and the metadata not, or nothing written; it never raises
save_to_disk(c, data, now, save) ==
    CASE save = "saved" ->
            [c EXCEPT !.cache_file = data, !.metadata_file = now]
      [] save = "data_only" -> [c EXCEPT !.cache_file = data]
      [] OTHER -> c

\* _load_from_disk(): the snapshot of the data file, and _last_update from
\* the metadata file if there is one; None if a file can not be read
load_from_disk(c, disk_ok) ==
    IF c.cache_file = None \/ ~disk_ok THEN [cache |-> c, data |-> None]
    ELSE [cache |->
              IF c.metadata_file # None
              THEN [c EXCEPT !.last_update = c.metadata_file]
              ELSE c,
          data |-> c.cache_file]

\* _fetch_and_cache() at time now; fetch_ok is false when load_sheet_data
\* raises
fetch_and_cache(c, now, fetch_ok, save) ==
    IF ~fetch_ok THEN Loaded(c, TRUE, None, TRUE)
    ELSE LET data == now
             memory == [c EXCEPT !.data = data, !.last_update = now]
         IN  Loaded(save_to_disk(memory, data, now, save), FALSE, data, TRUE)

\* A load_data that drops the snapshot only once the fetch has succeeded
load_data_KeepSnapshot(c, now, force_refresh, fetch_ok, save, disk_ok) ==
    IF force_refresh
    THEN IF fetch_ok THEN fetch_and_cache(c, now, fetch_ok, save)
         ELSE Loaded(c, TRUE, None, TRUE)
    ELSE IF is_cached(c) THEN Loaded(c, FALSE, c.data, FALSE)
    ELSE LET disk == IF has_disk_cache(c) THEN load_from_disk(c, disk_ok)
                     ELSE [cache |-> c, data |-> None]
         IN  IF disk.data # None
             THEN Loaded([disk.cache EXCEPT !.data = disk.data], FALSE,
                         disk.data, FALSE)
             ELSE fetch_and_cache(disk.cache, now, fetch_ok, save)

\* DataCache.load_data(force_refresh) at time now
load_data(c, now, force_refresh, fetch_ok, save, disk_ok) ==
    IF force_refresh
    THEN fetch_and_cache([c EXCEPT !.data = None, !.last_update = None],
                         now, fetch_ok, save)
    ELSE IF is_cached(c) THEN Loaded(c, FALSE, c.data, FALSE)
    ELSE LET disk == IF has_disk_cache(c) THEN load_from_disk(c, disk_ok)
                     ELSE [cache |-> c, data |-> None]
         IN  IF disk.data # None
             THEN Loaded([disk.cache EXCEPT !.data = disk.data], FALSE,
                         disk.data, FALSE)
             ELSE fetch_and_cache(disk.cache, now, fetch_ok, save)

\* The first check of the calculate routes that read the cache: 412 if
\* not data_cache.is_cached, else the route goes on
cache_gate(c) == IF ~is_cached(c) THEN 412 ELSE 200

SaveOutcomes == {"saved", "data_only", "failed"}

InitCache ==
    /\ request = [start_date |-> 2, end_date |-> 2]
    /\ table = {}
    /\ resp = NoResp
    /\ frames = NoFrames
    /\ metrics = NoMetrics
    /\ board_in = NoBoard
    /\ board = NoBoard
    /\ IdleDaily /\ IdleAnomaly /\ IdlePool
    /\ \E files \in {<<None, None>>, <<1, 1>>, <<1, None>>} :
           data_cache = [now |-> 2, c |-> DataCache(files[1], files[2])]
    /\ cache_log = <<>>

\* A call, with the cache as it found and as it left it
Call(op, force_refresh, before, after, status, value, fetched) ==
    [op |-> op, force_refresh |-> force_refresh, before |-> before,
     after |-> after, status |-> status, value |-> value,
     fetched |-> fetched]

CacheIdle ==
    UNCHANGED <<windowVars, metricVars, rankVars, dailyVars, anomalyVars,
                poolVars>>

\* POST /loadData: data_cache.load_data(force_refresh)
load_data_call ==
    /\ data_cache.now > 0
    /\ Len(cache_log) < MaxCalls
    /\ \E force_refresh \in BOOLEAN, fetch_ok \in BOOLEAN,
          save \in SaveOutcomes, disk_ok \in BOOLEAN :
           LET r == load_data(data_cache.c, data_cache.now, force_refresh,
                              fetch_ok, save, disk_ok)
           IN  /\ data_cache' = [now |-> data_cache.now + 1, c |-> r.cache]
               /\ cache_log' =
                      Append(cache_log,
                             Call("load_data", force_refresh, data_cache.c,
                                  r.cache,
                                  IF r.raised THEN "raised" ELSE "returned",
                                  r.value, r.fetched))
    /\ CacheIdle

\* A calculate route that reads the sheet cache
calculate_call ==
    /\ data_cache.now > 0
    /\ Len(cache_log) < MaxCalls
    /\ data_cache' = [data_cache EXCEPT !.now = @ + 1]
    /\ cache_log' =
           Append(cache_log,
                  Call("calculate", FALSE, data_cache.c, data_cache.c,
                       IF cache_gate(data_cache.c) = 412 THEN "412"
                       ELSE "goes on",
                       None, FALSE))
    /\ CacheIdle

NextCache ==
    \/ load_data_call
    \/ calculate_call

SpecCache == InitCache /\ [][NextCache]_vars

-----------------------------------------------------------------------------
(* Claims about the windows (SpecWindow) *)

ValidRequest == request.start_date <= request.end_date

\* N = (end_date - start_date) + 1
PeriodDays == request.end_date - request.start_date + 1

\* The sources the window claims name, and the boundary hour they give each
WindowSources ==
    {"TS_Log", "TS_Discord", "take_a_SHIT", "POS_Log", "Staking_Log",
     "Staking_Amount_Log", "ShitCode_Log", "Liq_Pool_Activity"}

BoundaryHour(source) ==
    CASE source \in {"TS_Log", "TS_Discord", "take_a_SHIT"} -> 8
      [] source = "POS_Log" -> 12
      [] OTHER -> 0

\* An instant of a window's clock, as a UTC instant
AsUtc(w, t) == IF w.tz = "UTC+8" THEN t - 8 * 60 ELSE t

\* The timestamps a source's rows carry in a window's clock
RowStamps(w) == IF w.tz = "UTC+8" THEN {r + 8 * 60 : r \in table} ELSE table

\* C1: for a valid request every resolved window pair has current and
\* previous of the same length, N days with N = (end_date - start_date) + 1,
\* and previous.end = current.start; a single-day request gives two 24-hour
\* windows.
C1_EqualLengthContiguous ==
    ValidRequest =>
        \A s \in DOMAIN resp.windows :
            LET w == resp.windows[s]
            IN  /\ w.current_end - w.current_start = PeriodDays * MinPerDay
                /\ w.prev_end - w.prev_start = PeriodDays * MinPerDay
                /\ w.prev_end = w.current_start
                /\ (request.start_date = request.end_date =>
                        /\ w.current_end - w.current_start = 24 * 60
                        /\ w.current_start - w.prev_start = 24 * 60)

\* A single-day request answered with the windows of all three boundary hours
C1_Witness ==
    /\ resp.handler = "calculate_revenue"
    /\ resp.status = 200
    /\ request.start_date = request.end_date

C3_HalfOpenDisjoint ==
    ValidRequest =>
        \A s \in DOMAIN resp.sel :
            LET w    == resp.windows[s]
                cur  == resp.sel[s].current
                prev == resp.sel[s].prev
            IN  /\ cur \cap prev = {}
                /\ \A t \in RowStamps(w) :
                       /\ (w.prev_start <= t /\ t < w.current_end) =>
                              ((t \in cur) # (t \in prev))
                       /\ t = w.current_start => (t \in cur /\ t \notin prev)
                       /\ t = w.current_end => (t \notin cur /\ t \notin prev)
                       /\ (t < w.prev_start \/ t >= w.current_end) =>
                              (t \notin cur /\ t \notin prev)

\* A row stamped exactly at the start of the current POS period
C3_Witness ==
    /\ resp.handler = "calculate_pos"
    /\ resp.windows["POS_Log"].current_start \in resp.sel["POS_Log"].current

\* No row of the table is in the TS range of the revenue request: the
\* current and the previous period, from 08:00 UTC+8 of their first days
NoTsRowsInRange ==
    LET lo == (request.start_date - PeriodDays) * MinPerDay
        hi == (request.end_date + 1) * MinPerDay
    IN  \A r \in table : ~(r >= lo /\ r < hi)

\* C19: a revenue request whose TS row source has no rows in range still
\* gets a normal response, not an error status.
C19_EmptyTsSourceAnswered ==
    (/\ resp.handler = "calculate_revenue"
     /\ ValidRequest
     /\ NoTsRowsInRange)
        => resp.status = 200

\* The sources of a handler whose rows its calculator puts into a daily
\* series
DailySourcesOf(handler) ==
    CASE handler = "calculate_pos" -> {"POS_Log"}
      [] handler = "calculate_revenue" ->
            {"TS_Log", "POS_Log", "Staking_Log", "ShitCode_Log"}
      [] handler = "calculate_staking" ->
            {"Staking_Amount_Log", "Staking_Log"}
      [] handler = "calculate_shitcode" -> {"ShitCode_Log"}
      [] handler = "calculate_defi" -> {"Liq_Pool_Activity"}
      [] handler = "calculate_ts_sql" -> {"take_a_SHIT"}
      [] OTHER -> {}

\* The day the daily series of the calculator files a selected row under
BucketDay(source, ts) ==
    CASE source = "POS_Log" -> business_date(ts, 12)
      [] source = "TS_Log" -> business_date(ts, 8)
      [] source = "take_a_SHIT" -> SqlDate(ts)
      [] OTHER -> strftime_date(ts)

\* C28: every row selected into the current window of a request gets a
\* business-day label between start_date and end_date: the window and the
\* bucketizer of a source use the same boundary hour (POS 12:00, TS 08:00
\* local and the UTC date in the SQL path, staking, point-code and DeFi
\* 00:00), so no daily entry falls outside the requested range.
C28_LabelsInsideRange ==
    resp.status = 200 =>
        \A source \in DailySourcesOf(resp.handler) :
            \A ts \in resp.sel[source].current :
                /\ request.start_date <= BucketDay(source, ts)
                /\ BucketDay(source, ts) <= request.end_date

\* A POS answer over several days that selects a row at 11:59 of the day
\* after end_date: its label is end_date
C28_Witness ==
    /\ resp.status = 200
    /\ resp.handler = "calculate_pos"
    /\ request.start_date < request.end_date
    /\ resp.sel["POS_Log"].current =
           {(request.end_date + 1) * MinPerDay + 11 * 60 + 59}
    /\ BucketDay("POS_Log",
                 (request.end_date + 1) * MinPerDay + 11 * 60 + 59)
           = request.end_date

-----------------------------------------------------------------------------
(* Claims about the metrics (SpecMetrics) *)

Answered == metrics.source # "none"

\* delta is the fraction 100 * (current - prev) / prev, for prev > 0
IsPercentChange(delta, current, prev) ==
    LET num == 100 * (current.n * prev.d - prev.n * current.d)
        den == current.d * prev.n
    IN  /\ ~IsNull(delta)
        /\ delta.d > 0
        /\ delta.d = den \div Gcd(Abs(num), den)
        /\ delta.n = num \div Gcd(Abs(num), den)

\* The uniform rule on one metric, an absent current value counting as 0
UniformDelta(t) ==
    LET current == IF IsNull(t.Current) THEN Num(0) ELSE t.Current
    IN  IF IsNull(t.Prev) \/ t.Prev.n <= 0
        THEN IsNull(t.Delta)
        ELSE /\ IsPercentChange(t.Delta, current, t.Prev)
             /\ (current.n = 0 => t.Delta = Num(-100))

\* The metrics the rule of C4 covers: all but the point-code average
C4Keys == DOMAIN metrics.m \ {"avgClaimPerAddress"}

\* C4: every metric of the TS, POS, staking, DeFi and revenue answers, and
\* claimCount, claimAmount and uniqueAddresses of the point-code answer, has
\* a null delta when its previous value is absent, zero or negative, and the
\* delta (current - prev) / prev * 100 when prev > 0, -100 for current = 0.
C4_DeltaRule ==
    Answered =>
        \A k \in C4Keys :
            LET t == metrics.m[k]
            IN  /\ UniformDelta(t)
                /\ (k \in DOMAIN metrics.current => t.Current = metrics.current[k])
                /\ (k \in DOMAIN metrics.prev => t.Prev = metrics.prev[k])
                /\ (k \notin DOMAIN metrics.prev => IsNull(t.Delta))

\* A POS answer for an empty current period after a period with rows
C4_Witness ==
    /\ metrics.source = "pos"
    /\ frames.current = <<>>
    /\ metrics.m["totalTx"].Prev.n > 0
    /\ metrics.m["totalTx"].Delta = Num(-100)

\* C5: the delta of avgClaimPerAddress is null if and only if the previous
\* average is absent or <= 0, and is otherwise (current - prev) / prev * 100
\* with an absent or zero current average taken as 0.
C5_AvgClaimDeltaUniform ==
    metrics.source = "shitcode" =>
        UniformDelta(metrics.m["avgClaimPerAddress"])

\* The keys each period aggregator documents
PeriodKeys(source) ==
    CASE source = "ts" ->
            {"totalTx", "tsClaim", "totalAmount", "uniqueAddresses",
             "meanClaims", "wolfTx", "oneRefTx", "twoRefTx", "luckyDraws",
             "luckyDrawAmount", "luckyDrawAddresses", "revenue", "shitCost",
             "roi"}
      [] source = "pos" ->
            {"totalTx", "totalAmount", "maxAmount", "minAmount",
             "totalRevenue", "avgReward"}
      [] source = "shitcode" ->
            {"claimCount", "claimAmount", "uniqueAddresses",
             "avgClaimPerAddress"}
      [] source = "staking" ->
            {"totalStake", "totalUnstake", "netStake", "stakeCount",
             "rewardCount", "rewardAmount"}
      [] source = "defi" ->
            {"buyShitAmount", "buyCount", "buyUsdtAmount", "sellShitAmount",
             "sellCount", "sellUsdtAmount", "tsSellShitAmount",
             "tsSellUsdtAmount", "liqAddUsdt", "liqAddCount", "liqRemoveUsdt",
             "liqRemoveCount"}
      [] OTHER ->
            {"tsRevenue", "posRevenue", "stakingRevenue", "shitCodeRevenue",
             "totalRevenue"}

\* The period was aggregated over no rows
NoRows(source, period) ==
    CASE source = "ts" -> period.ok /\ period.rows = <<>>
      [] source = "staking" -> period.amount = <<>> /\ period.log = <<>>
      [] source = "revenue" ->
            /\ period.ts = <<>>
            /\ period.pos = <<>>
            /\ period.staking = <<>>
            /\ period.shitcode = <<>>
      [] OTHER -> period = <<>>

AllZero(source, vector) ==
    /\ DOMAIN vector = PeriodKeys(source)
    /\ \A k \in PeriodKeys(source) :
           IF source = "shitcode" /\ k = "avgClaimPerAddress"
           THEN vector[k] = Null
           ELSE vector[k] = Num(0)

\* C6: a period aggregator run over a window with no rows answers its whole
\* key set with every value zero, null only for the point-code average.
C6_EmptyWindowAllZero ==
    Answered =>
        /\ (NoRows(frames.source, frames.current) =>
                AllZero(frames.source, metrics.current))
        /\ (NoRows(frames.source, frames.prev) =>
                AllZero(frames.source, metrics.prev))

\* A TS answer whose current window has no rows and whose previous has some
C6_Witness ==
    /\ metrics.source = "ts"
    /\ frames.current.ok
    /\ frames.current.rows = <<>>
    /\ frames.prev.rows # <<>>
    /\ metrics.m["totalAmount"].Current = Num(0)

\* The number of rows of a TS period whose amount is one of the given
CountAmounts(rows, amounts) ==
    Cardinality({i \in 1 .. Len(rows) : rows[i].amount \in amounts})

TsVectors ==
    {<<frames.current.rows, metrics.current>>,
     <<frames.prev.rows, metrics.prev>>}

\* C7: in every TS period vector twoRefTx + oneRefTx + wolfTx = tsClaim,
\* with twoRefTx = ref2Count, oneRefTx = ref1Count - ref2Count and
\* wolfTx = tsClaim - ref1Count.
C7_TierSum ==
    metrics.source = "ts" =>
        \A pv \in TsVectors :
            LET rows == pv[1]
                v == pv[2]
                ref1Count == CountAmounts(rows, {50, 150})
                ref2Count == CountAmounts(rows, {25, 75})
            IN  DOMAIN v # {} =>
                    /\ v["tsClaim"].n = CountAmounts(rows, {500, 1500})
                    /\ v["twoRefTx"].n + v["oneRefTx"].n + v["wolfTx"].n
                           = v["tsClaim"].n
                    /\ v["twoRefTx"].n = ref2Count
                    /\ v["oneRefTx"].n = ref1Count - ref2Count
                    /\ v["wolfTx"].n = v["tsClaim"].n - ref1Count

\* A TS answer over a window with two claims, one of them with a tier-1 row
C7_Witness ==
    /\ metrics.source = "ts"
    /\ frames.current.ok
    /\ CountAmounts(frames.current.rows, {50, 150}) = 1
    /\ metrics.current["tsClaim"].n = 1
    /\ metrics.current["wolfTx"].n = 0

\* C8: in every TS period ref2Count <= ref1Count <= tsClaim, so oneRefTx
\* and wolfTx are never negative.
C8_ContainmentChain ==
    metrics.source = "ts" =>
        \A pv \in TsVectors :
            LET rows == pv[1]
                v == pv[2]
            IN  DOMAIN v # {} =>
                    /\ CountAmounts(rows, {25, 75}) <= CountAmounts(rows, {50, 150})
                    /\ CountAmounts(rows, {50, 150}) <= CountAmounts(rows, {500, 1500})
                    /\ v["oneRefTx"].n >= 0
                    /\ v["wolfTx"].n >= 0

\* The period vectors of the answer with the inputs they were computed from
PeriodVectors ==
    {<<frames.current, metrics.current>>, <<frames.prev, metrics.prev>>}

\* C20: with a denominator <= 0 the average-claims-per-entity ratios (TS
\* meanClaims, point-code avgClaimPerAddress) are null and the cost / ROI
\* ratios (TS roi, POS avgReward) are 0.0.
C20_RatioFamilies ==
    Answered =>
        \A pv \in PeriodVectors :
            LET period == pv[1]
                vector == pv[2]
            IN  CASE metrics.source = "ts" ->
                        period.ok =>
                            /\ (vector.uniqueAddresses.n <= 0 =>
                                    vector.meanClaims = Null)
                            /\ (vector.shitCost.n <= 0 =>
                                    vector.roi = Num(0))
                  [] metrics.source = "shitcode" ->
                        vector.uniqueAddresses.n <= 0 =>
                            vector.avgClaimPerAddress = Null
                  [] metrics.source = "pos" ->
                        vector.totalTx.n <= 0 => vector.avgReward = Num(0)
                  [] OTHER -> TRUE

\* C21: _merge_metrics gives a Current / Prev / Delta triple for every
\* metric name of the current or of the previous vector, a missing entry
\* counting as 0: missing from prev gives Prev 0 and Delta null, missing from
\* current gives Current 0, for every combination of full and empty vectors.
C21_MergeOverUnion ==
    (Answered /\ metrics.source = "ts") =>
        LET current == metrics.current
            prev == metrics.prev
        IN  /\ DOMAIN metrics.m = DOMAIN current \cup DOMAIN prev
            /\ \A key \in DOMAIN current \cup DOMAIN prev :
                  /\ metrics.m[key].Current =
                         IF key \in DOMAIN current THEN current[key]
                         ELSE Num(0)
                  /\ metrics.m[key].Prev =
                         IF key \in DOMAIN prev THEN prev[key] ELSE Num(0)
                  /\ key \notin DOMAIN prev => metrics.m[key].Delta = Null

\* The current query failed and the previous period has a claim row
C21_Witness ==
    /\ Answered /\ metrics.source = "ts"
    /\ metrics.current = EmptyDict
    /\ DOMAIN metrics.prev = PeriodKeys("ts")
    /\ metrics.m["tsClaim"].Prev = Num(1)
    /\ metrics.m["tsClaim"].Current = Num(0)
    /\ metrics.m["tsClaim"].Delta = Num(-100)

\* The number of rows load_ts_log_from_db files under a category
CategoryCount(rows, category) ==
    Cardinality({i \in 1 .. Len(rows) :
                    TS_Category(rows[i].amount) = category})

\* The four classes of amounts, by category
AmountClass(category) ==
    CASE category = 0 -> {500, 1500}
      [] category = 1 -> {50, 150}
      [] category = 2 -> {25, 75}
      [] OTHER -> {}

\* C26: every TS row of a window is counted in exactly one of tsClaim
\* (amount 500 or 1500), ref1Count (50 or 150), ref2Count (25 or 75) and
\* luckyDraws (any other amount), so the four counts add up to totalTx, and
\* load_ts_log_from_db gives the categories 0, 1, 2, 3 to the same classes.
C26_AmountPartition ==
    metrics.source = "ts" =>
        \A pv \in TsVectors :
            LET rows == pv[1]
                v == pv[2]
                ref2Count == v["twoRefTx"].n
                ref1Count == v["oneRefTx"].n + v["twoRefTx"].n
            IN  DOMAIN v # {} =>
                    /\ v["tsClaim"].n + ref1Count + ref2Count
                           + v["luckyDraws"].n = v["totalTx"].n
                    /\ v["totalTx"].n = Len(rows)
                    /\ v["tsClaim"].n = CategoryCount(rows, 0)
                    /\ ref1Count = CategoryCount(rows, 1)
                    /\ ref2Count = CategoryCount(rows, 2)
                    /\ v["luckyDraws"].n = CategoryCount(rows, 3)
                    /\ \A i \in 1 .. Len(rows) :
                          \A c \in 0 .. 2 :
                              (TS_Category(rows[i].amount) = c)
                                  <=> (rows[i].amount \in AmountClass(c))

\* A period of one tier-2 row and one lucky draw
C26_Witness ==
    /\ metrics.source = "ts"
    /\ frames.current.ok
    /\ Len(frames.current.rows) = 2
    /\ metrics.current["twoRefTx"].n = 1
    /\ metrics.current["luckyDraws"].n = 1
    /\ metrics.current["tsClaim"].n = 0
    /\ metrics.current["totalTx"].n = 2

-----------------------------------------------------------------------------
(* Claims about the leaderboards (SpecRank) *)

\* A leaderboard was computed by a query that executed
Ranked == board.source # "none" /\ board_in.ok

\* The address and the amount of input row i, and whether the row is ranked
RowAddress(i) ==
    CASE board_in.source = "ts" -> board_in.rows[i].to_user
      [] board_in.source = "staking" -> board_in.rows[i]["Address"]
      [] OTHER -> board_in.rows[i]["Receiver Address"]

RowAmount(i) ==
    CASE board_in.source = "ts" -> board_in.rows[i].amount
      [] board_in.source = "staking" -> board_in.rows[i]["SHIT Amount"]
      [] OTHER -> board_in.rows[i]["SHIT Sent"]

Qualifies(i) ==
    CASE board_in.source = "ts" -> board_in.rows[i].amount \in {500, 1500}
      [] board_in.source = "staking" -> board_in.rows[i]["Type"] = "STAKE"
      [] OTHER -> TRUE

RankedRows == {i \in 1 .. Len(board_in.rows) : Qualifies(i)}

Entities == {RowAddress(i) : i \in RankedRows}

RECURSIVE SumRows(_)
SumRows(is) ==
    IF is = {} THEN 0
    ELSE LET i == CHOOSE x \in is : TRUE IN RowAmount(i) + SumRows(is \ {i})

\* The ranking aggregate of an entity: the sum of the amounts of its rows
Aggregate(e) == SumRows({i \in RankedRows : RowAddress(i) = e})

\* The aggregate an entry of the answered list carries
EntryAggregate(entry) ==
    CASE board.source \in {"ts", "pos"} -> entry.shitSent
      [] board.source = "shitcode" -> entry.claimAmount
      [] OTHER -> entry.amount

\* The masks of the addresses of Pool
PoolMasks ==
    <<"9vMJ...QL8i", "4Nd1...DB4T", "Wolf...lf42", "7xKX...gAsU",
      "DRpb...21hy", "abc...abc", "3h1z...p5UG", "EPjF...Dt1v",
      "6sbz...2k5J", "HZ1J...BCt3", "2ojv...HG8S", "BQcd...Diq4">>

\* C9: a leaderboard has min(number of distinct ranked entities, 10)
\* entries, in non-increasing order of the per-entity sum, each entity at
\* most once, each entry masked first 4 characters + "..." + last 4, and is
\* the empty list when no row qualifies.
C9_Leaderboard ==
    Ranked =>
        LET list == board.list
            n == Len(list)
        IN  /\ n = Min(Cardinality(Entities), 10)
            /\ \A i \in 1 .. n :
                   /\ list[i].fullAddress \in Entities
                   /\ EntryAggregate(list[i]) = Aggregate(list[i].fullAddress)
                   /\ \E p \in 1 .. Len(Pool) :
                          /\ Pool[p] = list[i].fullAddress
                          /\ list[i].address = PoolMasks[p]
            /\ \A i, j \in 1 .. n :
                   /\ i < j => EntryAggregate(list[i]) >= EntryAggregate(list[j])
                   /\ i # j => list[i].fullAddress # list[j].fullAddress
            /\ \A e \in Entities :
                   (\A i \in 1 .. n : list[i].fullAddress # e) =>
                       \A i \in 1 .. n : EntryAggregate(list[i]) >= Aggregate(e)
            /\ (Entities = {} => list = <<>>)

\* A POS leaderboard of ten entries over the rows of eleven addresses
C9_Witness ==
    /\ board.source = "pos"
    /\ Cardinality(Entities) = 11
    /\ Len(board.list) = 10

\* The first input row of an entity
FirstRow(e) ==
    CHOOSE i \in RankedRows :
        /\ RowAddress(i) = e
        /\ \A j \in RankedRows : RowAddress(j) = e => i <= j

\* C10: entities with equal aggregates are listed in the order of their first
\* input rows, and of a tie across the cut the earlier entity is kept.
C10_TiesInInputOrder ==
    Ranked =>
        LET list == board.list
            n == Len(list)
        IN  /\ \A i, j \in 1 .. n :
                   (i < j /\ EntryAggregate(list[i]) = EntryAggregate(list[j])) =>
                       FirstRow(list[i].fullAddress) < FirstRow(list[j].fullAddress)
            /\ \A e \in Entities :
                   (\A i \in 1 .. n : list[i].fullAddress # e) =>
                       \A i \in 1 .. n :
                           EntryAggregate(list[i]) = Aggregate(e) =>
                               FirstRow(list[i].fullAddress) < FirstRow(e)


-----------------------------------------------------------------------------
(* Claims about the daily series and the composition (SpecDaily) *)

Bucketized == daily.source # "none"

\* The label the specification gives a local timestamp under boundary hour b
Label(ts, b) ==
    IF ts % MinPerDay < b * 60 THEN (ts \div MinPerDay) - 1
    ELSE ts \div MinPerDay

\* The sum of a column over the rows the specification labels d
LabelledSum(df, name, b, d) ==
    LET Labelled(r) == Label(r[TIMESTAMP_COL], b) = d
    IN  SeqSum(Col(SelectSeq(df, Labelled), name))

Labels(df, b) == {Label(df[i][TIMESTAMP_COL], b) : i \in 1 .. Len(df)}

EntryDates(series) == {series[i].date : i \in 1 .. Len(series)}

\* The dates of the rows and the days before them
NearDates(df) ==
    UNION {{df[i][TIMESTAMP_COL] \div MinPerDay,
            (df[i][TIMESTAMP_COL] \div MinPerDay) - 1} : i \in 1 .. Len(df)}

\* C11: with boundary hour b (POS 12, TS revenue 8) a row whose local hour is
\* below b counts for the day before its date and a row at or after b:00 for
\* its own date, so every day of a series is the date of one of its rows or
\* the day before it.
C11_BoundaryLabels ==
    /\ daily.source = "pos" =>
          /\ EntryDates(daily.series) = Labels(daily_in.rows, 12)
          /\ EntryDates(daily.series) \subseteq NearDates(daily_in.rows)
          /\ \A i \in 1 .. Len(daily.series) :
                LET e == daily.series[i]
                IN  /\ e.solReceived =
                          LabelledSum(daily_in.rows, "SOL Received", 12,
                                      e.date)
                    /\ e.shitSent =
                          LabelledSum(daily_in.rows, "SHIT Sent", 12, e.date)
    /\ daily.source = "revenue" =>
          /\ Labels(daily_in.ts, 8) \cup Labels(daily_in.pos, 12)
                 \subseteq EntryDates(daily.series)
          /\ \A i \in 1 .. Len(daily.series) :
                LET e == daily.series[i]
                IN  /\ e.tsRevenue =
                          LabelledSum(daily_in.ts, "SOL_Received", 8, e.date)
                    /\ e.posRevenue =
                          LabelledSum(daily_in.pos, "SOL Received", 12,
                                      e.date)

\* A POS series of a row at 11:59 and a row at 12:00:00 of the same date
C11_Witness ==
    /\ daily.source = "pos"
    /\ Len(daily_in.rows) = 2
    /\ daily_in.rows[1][TIMESTAMP_COL] = MinPerDay + 11 * 60 + 59
    /\ daily_in.rows[2][TIMESTAMP_COL] = MinPerDay + 12 * 60
    /\ Len(daily.series) = 2
    /\ daily.series[1].date = 0
    /\ daily.series[2].date = 1

\* The local (UTC+8) time of a row of take_a_SHIT
LocalTime(block_time_dt) == block_time_dt + 8 * 60

\* The two rows of the scenario: 23:30 and 00:30 local time
IsLate(local) == local % MinPerDay = 23 * 60 + 30
IsEarly(local) == local % MinPerDay = 30
InScenario(local) == IsLate(local) \/ IsEarly(local)

\* The business day of a scenario row: its date for the 23:30 row; for the
\* 00:30 row its date as the scenario states it, or the day before
ScenarioDay(local, as_stated) ==
    IF IsEarly(local) /\ ~as_stated THEN (local \div MinPerDay) - 1
    ELSE local \div MinPerDay

\* The TS rows of the input with their local times and amounts
ScenarioRows ==
    CASE daily_in.source = "ts" ->
            LET w == TsSqlWindow(daily_in.request)
                sel == TsWindowRows(daily_in.rows, w.current_start,
                                    w.current_end)
            IN  [i \in 1 .. Len(sel) |->
                    [local |-> LocalTime(sel[i].block_time_dt),
                     sol |-> sel[i].SolSentToTreasury]]
      [] daily_in.source = "revenue" ->
            [i \in 1 .. Len(daily_in.ts) |->
                [local |-> daily_in.ts[i][TIMESTAMP_COL],
                 sol |-> daily_in.ts[i]["SOL_Received"]]]
      [] OTHER -> <<>>

\* The TS amount of a day of the series
TsAmount(entry) ==
    IF daily.source = "ts" THEN entry.solReceived ELSE entry.tsRevenue

\* The series attributes each scenario row to its scenario day
ScenarioHolds(as_stated) ==
    LET rows == ScenarioRows
        days == {ScenarioDay(rows[i].local, as_stated) : i \in 1 .. Len(rows)}
        DaySum(d) ==
            LET On(r) == ScenarioDay(r.local, as_stated) = d
            IN  SeqSum([i \in 1 .. Len(SelectSeq(rows, On)) |->
                           SelectSeq(rows, On)[i].sol])
    IN  (/\ Bucketized
         /\ daily.source \in {"ts", "revenue"}
         /\ daily.source = "ts" => daily_in.ok
         /\ \A i \in 1 .. Len(rows) : InScenario(rows[i].local))
        => /\ days \subseteq EntryDates(daily.series)
           /\ daily.source = "ts" => EntryDates(daily.series) = days
           /\ \A i \in 1 .. Len(daily.series) :
                 TsAmount(daily.series[i]) = DaySum(daily.series[i].date)

\* C12 (amended): for the reward source a row at 23:30 UTC+8 of a day counts
\* for that day, and a row at 00:30 UTC+8 of the next day counts for the same
\* day as well (its local hour 0 is below the boundary hour 8 and its UTC
\* date is still that day), in the TS daily series and in the revenue series.
C12_ScenarioSameDay == ScenarioHolds(FALSE)

\* C12 (as stated): the row at 00:30 UTC+8 of the next day counts for the
\* next day.
C12_ScenarioNextDay == ScenarioHolds(TRUE)

\* Both rows of the scenario, in one day of the TS daily series
C12_Witness ==
    /\ daily.source = "ts"
    /\ daily_in.ok
    /\ Len(ScenarioRows) = 2
    /\ ScenarioRows[1].local = MinPerDay + 23 * 60 + 30
    /\ ScenarioRows[2].local = 2 * MinPerDay + 30
    /\ Len(daily.series) = 1
    /\ daily.series[1].date = 1
    /\ daily.series[1].txCount = 2

\* The current-period revenue of a source, summed over the rows of the input
SourceRevenue(source) ==
    CASE source = "TS" -> SeqSum(Col(daily_in.ts, "SOL_Received"))
      [] source = "POS" -> SeqSum(Col(daily_in.pos, "SOL Received"))
      [] source = "Staking" -> SeqSum(Col(daily_in.staking, "SOL Received"))
      [] source = "ShitCode" -> SeqSum(Col(daily_in.shitcode, "SOL Received"))

RevenueSources == {"TS", "POS", "Staking", "ShitCode"}

\* C15: the revenue composition has one {source, amount} entry for exactly
\* the sources whose current-period revenue is above 0, in non-increasing
\* order of amount; revenues [100, 0, 50, 0] give [TS: 100, Staking: 50] and
\* four zero revenues give the empty list.
C15_Composition ==
    daily.source = "revenue" =>
        LET c == daily.composition
        IN  /\ {c[i].source : i \in 1 .. Len(c)} =
                   {src \in RevenueSources : SourceRevenue(src) > 0}
            /\ \A i, j \in 1 .. Len(c) : c[i].source = c[j].source => i = j
            /\ \A i \in 1 .. Len(c) :
                  c[i].amount = Num(SourceRevenue(c[i].source))
            /\ \A i \in 1 .. (Len(c) - 1) : c[i].amount.n >= c[i + 1].amount.n
            /\ (\A src \in RevenueSources : SourceRevenue(src) = 0)
                   => c = <<>>
            /\ (/\ SourceRevenue("TS") = 100 /\ SourceRevenue("POS") = 0
                /\ SourceRevenue("Staking") = 50
                /\ SourceRevenue("ShitCode") = 0)
                   => c = <<[source |-> "TS", amount |-> Num(100)],
                            [source |-> "Staking", amount |-> Num(50)]>>

\* Revenues [100, 0, 50, 0] and their composition
C15_Witness ==
    /\ daily.source = "revenue"
    /\ SourceRevenue("TS") = 100 /\ SourceRevenue("POS") = 0
    /\ SourceRevenue("Staking") = 50 /\ SourceRevenue("ShitCode") = 0
    /\ Len(daily.composition) = 2
    /\ daily.composition[1].source = "TS"
    /\ daily.composition[2].source = "Staking"

\* totalRevenue is the sum of the four revenues, in a period vector
TotalIsSum(vector) ==
    vector.totalRevenue =
        Num(vector.tsRevenue.n + vector.posRevenue.n
                + vector.stakingRevenue.n + vector.shitCodeRevenue.n)

Contributions ==
    CASE daily_in.source = "revenue" ->
            {[rows |-> daily_in.ts, b |-> 8, field |-> "tsRevenue"],
             [rows |-> daily_in.pos, b |-> 12, field |-> "posRevenue"],
             [rows |-> daily_in.staking, b |-> 0,
              field |-> "stakingRevenue"],
             [rows |-> daily_in.shitcode, b |-> 0,
              field |-> "shitCodeRevenue"]}
      [] daily_in.source = "staking" ->
            {[rows |-> Where(daily_in.amount, "Type", "STAKE"), b |-> 0,
              field |-> "stake"],
             [rows |-> daily_in.log, b |-> 0, field |-> "rewards"]}
      [] OTHER -> {}

\* Each label once, in ascending order
AscendingDates(series) ==
    \A i \in 1 .. (Len(series) - 1) : series[i].date < series[i + 1].date

\* C24: a composite daily series (revenue; staking over stake and reward
\* rows) has one entry for every business-day label of at least one
\* contributing source and no other, in ascending order, and the value of a
\* source without rows on the label is 0.
C24_CompositeSeriesDates ==
    (Bucketized /\ daily.source \in {"revenue", "staking"}) =>
        /\ EntryDates(daily.series) =
               UNION {Labels(c.rows, c.b) : c \in Contributions}
        /\ AscendingDates(daily.series)
        /\ \A i \in 1 .. Len(daily.series) :
              \A c \in Contributions :
                  daily.series[i].date \notin Labels(c.rows, c.b)
                      => daily.series[i][c.field] = 0

\* A staking series with a day of stake rows only and a day of rewards only,
\* and a revenue series with a day of TS revenue only
C24_Witness ==
    \/ /\ daily.source = "staking"
       /\ Len(daily.series) = 2
       /\ daily.series[1].stake > 0 /\ daily.series[1].rewards = 0
       /\ daily.series[2].stake = 0 /\ daily.series[2].rewards > 0
       /\ daily.series[1].date
              \notin Labels(daily_in.log, 0)
    \/ /\ daily.source = "revenue"
       /\ Len(daily.series) >= 2
       /\ \E i \in 1 .. Len(daily.series) :
             /\ daily.series[i].tsRevenue > 0
             /\ daily.series[i].posRevenue = 0
             /\ daily.series[i].date \notin Labels(daily_in.pos, 12)
       /\ \E i \in 1 .. Len(daily.series) :
             daily.series[i].posRevenue > 0

\* The local timestamps of the rows of the window of a single-source series
WindowStamps ==
    CASE daily_in.source = "ts" ->
            LET w == TsSqlWindow(daily_in.request)
                sel == TsWindowRows(daily_in.rows, w.current_start,
                                    w.current_end)
            IN  [i \in 1 .. Len(sel) |-> LocalTime(sel[i].block_time_dt)]
      [] daily_in.source \in {"pos", "shitcode", "defi"} ->
            [i \in 1 .. Len(daily_in.rows) |->
                daily_in.rows[i][TIMESTAMP_COL]]
      [] OTHER -> <<>>

\* The boundary hour of the labels of a single-source series
BoundaryHourOf(source) ==
    CASE source = "ts" -> 8
      [] source = "pos" -> 12
      [] OTHER -> 0

\* The labels of the rows of the window
WindowLabels ==
    {Label(WindowStamps[i], BoundaryHourOf(daily_in.source)) :
        i \in 1 .. Len(WindowStamps)}

SingleSources == {"ts", "pos", "shitcode", "defi"}

\* C25: a single-source daily series (TS, POS, point-code, DeFi) has an entry
\* for a label exactly when at least one row of the window maps to it: no
\* day is synthesized, each label occurs once in ascending order, and an
\* empty window gives an empty list.
C25_SingleSourceDates ==
    (/\ Bucketized
     /\ daily.source \in SingleSources
     /\ daily.source = "ts" => daily_in.ok)
        => /\ EntryDates(daily.series) = WindowLabels
           /\ AscendingDates(daily.series)
           /\ Len(WindowStamps) = 0 => daily.series = <<>>

\* A series of two rows whose labels are two days apart: no entry for the
\* day between them
C25_Witness ==
    /\ daily.source \in {"pos", "shitcode", "defi"}
    /\ Len(daily_in.rows) = 2
    /\ Len(daily.series) = 2
    /\ daily.series[2].date = daily.series[1].date + 2

-----------------------------------------------------------------------------
(* Claims about the anomalies of a day (SpecAnomaly) *)

Reported == findings.status = "returned"

HasEngine == {"DB_HOST", "DB_USER"} \subseteq anomaly_in.env

\* The rows of a table from 00:00 UTC of the day plus offset, for 24 hours
DayRows(rows, offset) ==
    {i \in 1 .. Len(rows) :
        /\ rows[i].block_time_dt >= anomaly_in.date_str * MinPerDay + offset
        /\ rows[i].block_time_dt <
               (anomaly_in.date_str + 1) * MinPerDay + offset}

TsEntities == {anomaly_in.ts[i].to_user : i \in DayRows(anomaly_in.ts, 0)}

ClaimRowsOf(u) ==
    Cardinality({i \in DayRows(anomaly_in.ts, 0) :
                    /\ anomaly_in.ts[i].to_user = u
                    /\ anomaly_in.ts[i].amount \in {500, 1500}})

DrawRowsOf(u) ==
    Cardinality({i \in DayRows(anomaly_in.ts, 0) :
                    /\ anomaly_in.ts[i].to_user = u
                    /\ anomaly_in.ts[i].amount
                           \notin {500, 1500, 50, 150, 25, 75}})

TsKindsOfFinding == {"TS_LUCKY_DRAW_OVER", "TS_OVER_CLAIM", "TS_LOGIC_ERROR"}

\* The positions of the TS findings of an entity
TsFindingsOf(u) ==
    {i \in 1 .. Len(findings.anomalies) :
        /\ findings.anomalies[i].address = u
        /\ findings.anomalies[i].type \in TsKindsOfFinding}

\* C13: an entity with more than 3 draw rows in the day window gets exactly
\* one TS finding, of kind TS_LUCKY_DRAW_OVER and severity high, with its
\* draw and claim counts as evidence, whatever its claim count.
C13_DrawOverflowOnly ==
    (Reported /\ HasEngine /\ anomaly_in.ok.ts) =>
        \A u \in TsEntities :
            DrawRowsOf(u) > 3 =>
                /\ Cardinality(TsFindingsOf(u)) = 1
                /\ \A i \in TsFindingsOf(u) :
                      /\ findings.anomalies[i].type = "TS_LUCKY_DRAW_OVER"
                      /\ findings.anomalies[i].severity = "high"
                      /\ findings.anomalies[i].data =
                             [luckyDraws |-> DrawRowsOf(u),
                              claims |-> ClaimRowsOf(u)]

\* 4 draws and 25 claims: one finding, although the claims exceed 20 as well
C13_Witness ==
    /\ Reported /\ HasEngine /\ anomaly_in.ok.ts
    /\ DrawRowsOf("A") = 4
    /\ ClaimRowsOf("A") = 25
    /\ Cardinality(TsFindingsOf("A")) = 1

\* The kinds of TS finding the rule set gives an entity of the day
ExpectedTsKinds(u) ==
    LET claims == ClaimRowsOf(u)
        draws == DrawRowsOf(u)
    IN  IF draws > 3 THEN {"TS_LUCKY_DRAW_OVER"}
        ELSE (IF claims > 20 THEN {"TS_OVER_CLAIM"} ELSE {})
             \cup (IF \/ claims < 5 /\ draws >= 1
                      \/ claims \in 5 .. 9 /\ draws >= 2
                      \/ claims \in 10 .. 19 /\ draws = 3
                   THEN {"TS_LOGIC_ERROR"} ELSE {})

\* The entities with more than one reward row in the 24 hours from 04:00 UTC
Duplicated(rows) ==
    {u \in {rows[i].to_user : i \in DayRows(rows, 4 * 60)} :
        Cardinality({i \in DayRows(rows, 4 * 60) : rows[i].to_user = u}) > 1}

\* The findings a source gives when its query runs, as (address, kind) pairs
ExpectedOf(source) ==
    CASE source = "ts" ->
            UNION {{<<u, k>> : k \in ExpectedTsKinds(u)} : u \in TsEntities}
      [] source = "pos" ->
            {<<u, "POS_DUPLICATE">> : u \in Duplicated(anomaly_in.pos)}
      [] source = "staking" ->
            {<<u, "STAKING_DUPLICATE">> :
                u \in Duplicated(anomaly_in.staking)}

KindsOf(source) ==
    CASE source = "ts" -> TsKindsOfFinding
      [] source = "pos" -> {"POS_DUPLICATE"}
      [] source = "staking" -> {"STAKING_DUPLICATE"}

\* The positions of the findings of a source in the returned list
FindingsOf(source) ==
    {i \in 1 .. Len(findings.anomalies) :
        findings.anomalies[i].type \in KindsOf(source)}

AnomalySources == {"ts", "pos", "staking"}

\* C14: a detector whose query fails contributes no finding, the findings of
\* the other detectors are all in the returned list and in the summary,
\* whichever detectors fail, and a result is returned.
C14_FailureContained ==
    (anomaly_in.status = "input" /\ HasEngine /\ findings.status # "none") =>
        /\ Reported
        /\ \A source \in AnomalySources :
              IF anomaly_in.ok[source]
              THEN /\ {<<findings.anomalies[i].address,
                         findings.anomalies[i].type>> :
                          i \in FindingsOf(source)} = ExpectedOf(source)
                   /\ Cardinality(FindingsOf(source)) =
                          Cardinality(ExpectedOf(source))
              ELSE FindingsOf(source) = {}
        /\ findings.summary.totalCount = Len(findings.anomalies)
        /\ findings.summary.highRiskCount =
               Cardinality({i \in 1 .. Len(findings.anomalies) :
                               findings.anomalies[i].severity = "high"})
        /\ findings.summary.mediumRiskCount =
               Cardinality({i \in 1 .. Len(findings.anomalies) :
                               findings.anomalies[i].severity = "medium"})
        /\ findings.summary.highRiskCount
               + findings.summary.mediumRiskCount
               + findings.summary.lowRiskCount = findings.summary.totalCount

\* The TS query fails on a day with a draw overflow; the two POS findings and
\* the staking finding are returned and counted
C14_Witness ==
    /\ Reported /\ HasEngine
    /\ ~anomaly_in.ok.ts /\ anomaly_in.ok.pos /\ anomaly_in.ok.staking
    /\ DrawRowsOf("A") = 4
    /\ Cardinality(FindingsOf("pos")) = 2
    /\ Cardinality(FindingsOf("staking")) = 1
    /\ findings.summary.totalCount = 3

\* What calculate_anomalies returns for a day on which the three queries ran
\* and no entity was flagged
QuietDay ==
    [status |-> "returned",
     summary |-> [totalCount |-> 0, highRiskCount |-> 0,
                  mediumRiskCount |-> 0, lowRiskCount |-> 0],
     anomalies |-> <<>>]

\* C18: when get_db_engine returns None the caller gets a failure it can
\* tell from the result of a day without activity, not a silent default.
C18_EngineFailureSurfaced ==
    (/\ anomaly_in.status = "input"
     /\ ~get_db_engine(anomaly_in.env)
     /\ findings.status # "none")
        => findings # QuietDay

\* The number of rows of an entity in the 24 hours from 04:00 UTC of the day
RewardRowsOf(rows, u) ==
    Cardinality({i \in DayRows(rows, 4 * 60) : rows[i].to_user = u})

\* The reward table a kind of finding is about
TableOf(type) ==
    IF type = "POS_DUPLICATE" THEN anomaly_in.pos ELSE anomaly_in.staking

\* C22: calculate_anomalies evaluates one window per source and none before
\* it: TS rows of [date 00:00 UTC, date+1 00:00 UTC), POS and staking rows of
\* [date 04:00 UTC, date+1 04:00 UTC), each 24 hours and half-open; every
\* finding is labelled with the requested date.
C22_OneDayWindowPerSource ==
    (Reported /\ HasEngine) =>
        LET w == AnomalyWindows(anomaly_in.date_str)
            day == anomaly_in.date_str * MinPerDay
        IN  /\ w.ts_start_utc = day
            /\ w.ts_end_utc = day + 24 * 60
            /\ w.pos_start_utc = day + 4 * 60
            /\ w.pos_end_utc = day + 28 * 60
            /\ w.staking_start_utc = day + 4 * 60
            /\ w.staking_end_utc = day + 28 * 60
            /\ DOMAIN findings = {"status", "summary", "anomalies"}
            /\ \A i \in 1 .. Len(findings.anomalies) :
                  LET a == findings.anomalies[i]
                  IN  /\ a.date = anomaly_in.date_str
                      /\ IF a.type \in TsKindsOfFinding
                         THEN /\ a.data.luckyDraws = DrawRowsOf(a.address)
                              /\ a.data.claims = ClaimRowsOf(a.address)
                         ELSE /\ a.data.count =
                                     RewardRowsOf(TableOf(a.type), a.address)
                              /\ a.data.count > 1

\* Draw rows one minute before the TS window and at its end, and POS rows on
\* both sides of 04:00 UTC: only the rows inside the windows are counted
C22_Witness ==
    /\ Reported /\ HasEngine
    /\ anomaly_in.ok.ts /\ anomaly_in.ok.pos
    /\ \E i \in 1 .. Len(anomaly_in.ts) :
          /\ anomaly_in.ts[i].to_user = "C"
          /\ anomaly_in.ts[i].block_time_dt =
                 anomaly_in.date_str * MinPerDay - 1
    /\ \E i \in 1 .. Len(anomaly_in.ts) :
          /\ anomaly_in.ts[i].to_user = "C"
          /\ anomaly_in.ts[i].block_time_dt =
                 (anomaly_in.date_str + 1) * MinPerDay
    /\ TsFindingsOf("C") = {}
    /\ DrawRowsOf("A") = 4
    /\ Cardinality(TsFindingsOf("A")) = 1
    /\ \E i \in 1 .. Len(anomaly_in.pos) :
          /\ anomaly_in.pos[i].to_user = "A"
          /\ anomaly_in.pos[i].block_time_dt =
                 anomaly_in.date_str * MinPerDay + 4 * 60 - 1
    /\ \A i \in FindingsOf("pos") : findings.anomalies[i].address # "A"
    /\ Cardinality(FindingsOf("pos")) = 2

\* The condition under which the rule set flags an entity
Flagged(claims, draws) ==
    \/ draws > 3
    \/ claims > 20
    \/ claims < 5 /\ draws >= 1
    \/ 5 <= claims /\ claims < 10 /\ draws >= 2
    \/ 10 <= claims /\ claims < 20 /\ draws = 3

\* The kind of the one finding of a flagged entity
KindOfFlagged(claims, draws) ==
    IF draws > 3 THEN "TS_LUCKY_DRAW_OVER"
    ELSE IF claims > 20 THEN "TS_OVER_CLAIM"
    ELSE "TS_LOGIC_ERROR"

\* The entities the query of _detect_ts_anomalies_sql selects for the day
HavingSelected ==
    LET w == AnomalyWindows(anomaly_in.date_str)
        df == ts_anomaly_query(anomaly_in.ts, w.ts_start_utc, w.ts_end_utc)
    IN  {row.address : row \in df}

\* C27: the TS detector gives an entity at most one finding per day, and
\* exactly one if and only if draws > 3, or claims > 20, or claims < 5 with
\* draws >= 1, or 5 <= claims < 10 with draws >= 2, or 10 <= claims < 20
\* with draws = 3; its kind is TS_LUCKY_DRAW_OVER if draws > 3, else
\* TS_OVER_CLAIM if claims > 20, else TS_LOGIC_ERROR; every entity the
\* HAVING clause selects has a finding, and an entity with exactly 20 claims
\* and at most 3 draws has none.
C27_OneFindingPerEntity ==
    (Reported /\ HasEngine /\ anomaly_in.ok.ts) =>
        /\ \A u \in TsEntities :
              LET claims == ClaimRowsOf(u)
                  draws == DrawRowsOf(u)
              IN  /\ Cardinality(TsFindingsOf(u)) <= 1
                  /\ (Cardinality(TsFindingsOf(u)) = 1)
                         <=> Flagged(claims, draws)
                  /\ \A i \in TsFindingsOf(u) :
                        findings.anomalies[i].type =
                            KindOfFlagged(claims, draws)
                  /\ (claims = 20 /\ draws <= 3) => TsFindingsOf(u) = {}
        /\ \A u \in HavingSelected : TsFindingsOf(u) # {}
        /\ \A i \in 1 .. Len(findings.anomalies) :
              findings.anomalies[i].type \in TsKindsOfFinding
                  => findings.anomalies[i].address \in HavingSelected

\* An entity with exactly 20 claims and 3 draws and no finding, next to an
\* entity with 21 claims and its one TS_OVER_CLAIM finding
C27_Witness ==
    /\ Reported /\ HasEngine /\ anomaly_in.ok.ts
    /\ ClaimRowsOf("A") = 20 /\ DrawRowsOf("A") = 3
    /\ TsFindingsOf("A") = {}
    /\ ClaimRowsOf("B") = 21
    /\ \E i \in TsFindingsOf("B") :
          findings.anomalies[i].type = "TS_OVER_CLAIM"

\* The reward table of a source and the kind of its findings
RewardTable(source) ==
    IF source = "pos" THEN anomaly_in.pos ELSE anomaly_in.staking

DuplicateKind(source) ==
    IF source = "pos" THEN "POS_DUPLICATE" ELSE "STAKING_DUPLICATE"

\* The positions of the duplicate findings of a source about an entity
DuplicateFindingsOf(source, u) ==
    {i \in 1 .. Len(findings.anomalies) :
        /\ findings.anomalies[i].type = DuplicateKind(source)
        /\ findings.anomalies[i].address = u}

RewardEntities ==
    {anomaly_in.pos[i].to_user : i \in 1 .. Len(anomaly_in.pos)}
        \cup {anomaly_in.staking[i].to_user :
                 i \in 1 .. Len(anomaly_in.staking)}

\* C29: the POS and staking detectors give an entity exactly one finding
\* (POS_DUPLICATE, STAKING_DUPLICATE, severity high) if and only if it has
\* more than one reward row in the day window of that source, with the
\* number of rows as evidence; one row gives none, and the duplicate of one
\* source gives no finding of the other kind.
C29_DuplicatePerSource ==
    (Reported /\ HasEngine) =>
        \A source \in {"pos", "staking"} :
            anomaly_in.ok[source] =>
                \A u \in RewardEntities :
                    LET n == RewardRowsOf(RewardTable(source), u)
                        mine == DuplicateFindingsOf(source, u)
                    IN  /\ Cardinality(mine) = IF n > 1 THEN 1 ELSE 0
                        /\ \A i \in mine :
                              /\ findings.anomalies[i].severity = "high"
                              /\ findings.anomalies[i].data.count = n
                              /\ Len(findings.anomalies[i].data.amounts) = n

\* An entity with one POS row in the window and three staking rows: a
\* STAKING_DUPLICATE finding of count 3 and no POS_DUPLICATE finding
C29_Witness ==
    /\ Reported /\ HasEngine
    /\ anomaly_in.ok.pos /\ anomaly_in.ok.staking
    /\ RewardRowsOf(anomaly_in.pos, "A") = 1
    /\ DuplicateFindingsOf("pos", "A") = {}
    /\ RewardRowsOf(anomaly_in.staking, "A") = 3
    /\ \E i \in DuplicateFindingsOf("staking", "A") :
          findings.anomalies[i].data.count = 3
    /\ \E u \in RewardEntities :
          /\ DuplicateFindingsOf("pos", u) # {}
          /\ DuplicateFindingsOf("staking", u) = {}

-----------------------------------------------------------------------------
(* Claims about calculate_ts_sql (SpecPool) *)

Returned == pool.pc = "returned"

PoolEngine == sql_env.pc = "input" /\ {"DB_HOST", "DB_USER"} \subseteq sql_env.env

\* The rows of the table in the current and in the previous period
PeriodRows ==
    LET lo == sql_env.request.start_date * MinPerDay
        hi == (sql_env.request.end_date + 1) * MinPerDay
        In(a, b) == LET Within(r) == r.block_time_dt >= a /\ r.block_time_dt < b
                    IN  SelectSeq(sql_env.rows, Within)
    IN  [current |-> In(lo, hi), prev |-> In(lo - (hi - lo), lo)]

\* What each query function returns when it is run on its own; ok tells
\* whether the query executes
QueryResult(task, ok) ==
    CASE task = "curr" ->
            fetch_period_metrics_sql(PeriodRows.current,
                                     sql_env.avg_prices.current, ok)
      [] task = "prev" ->
            fetch_period_metrics_sql(PeriodRows.prev,
                                     sql_env.avg_prices.prev, ok)
      [] task = "daily" ->
            fetch_daily_data_sql(sql_env.rows,
                                 sql_env.request.start_date * MinPerDay,
                                 (sql_env.request.end_date + 1) * MinPerDay,
                                 ok)
      [] task = "top" ->
            fetch_top_users_sql(
                CHOOSE ordered \in
                    SortValues(TopUsersGroups(PeriodRows.current)) : TRUE,
                ok)

\* The response assembled from the four functions run one after another
SequentialResponse ==
    [metrics |-> merge_metrics(QueryResult("curr", sql_env.ok.curr),
                               QueryResult("prev", sql_env.ok.prev)),
     dailyData |-> QueryResult("daily", sql_env.ok.daily),
     topUsers |-> QueryResult("top", sql_env.ok.top)]

\* C16: the four tasks have all completed before the response is assembled,
\* the response is the same for every interleaving and completion order, and
\* no task is running after calculate_ts_sql has returned.
C16_JoinedBeforeAssembly ==
    (PoolEngine /\ pool.pc \in {"merge", "returned"}) =>
        /\ \A t \in PoolTasks : pool.tasks[t] = "done"
        /\ \A t \in PoolTasks : pool.locals[t] = pool.results[t]
        /\ Returned => pool.response = SequentialResponse

\* The task submitted last completed first, and the response is assembled
C16_Witness ==
    /\ PoolEngine /\ Returned
    /\ pool.first_done = "top"
    /\ \A t \in PoolTasks : sql_env.ok[t]
    /\ Len(pool.response.topUsers) = 2
    /\ Len(pool.response.dailyData) = 1

PoolMetricKeys == DOMAIN QueryResult("curr", TRUE)

\* C17: when some of the four queries fail the request still returns metrics,
\* dailyData and topUsers; a failed query gives an empty or zeroed section
\* and the sections of the queries that succeeded are those the queries
\* returned.
C17_QueryFailureContained ==
    (PoolEngine /\ Returned) =>
        LET r == pool.response
            current == QueryResult("curr", TRUE)
            prev == QueryResult("prev", TRUE)
        IN  /\ DOMAIN r = {"metrics", "dailyData", "topUsers"}
            /\ r.dailyData = IF sql_env.ok.daily
                             THEN QueryResult("daily", TRUE) ELSE <<>>
            /\ r.topUsers = IF sql_env.ok.top
                            THEN QueryResult("top", TRUE) ELSE <<>>
            /\ IF ~sql_env.ok.curr /\ ~sql_env.ok.prev
               THEN DOMAIN r.metrics = {}
               ELSE /\ DOMAIN r.metrics = PoolMetricKeys
                    /\ \A key \in PoolMetricKeys :
                          /\ r.metrics[key].Current =
                                 IF sql_env.ok.curr THEN current[key]
                                 ELSE Num(0)
                          /\ r.metrics[key].Prev =
                                 IF sql_env.ok.prev THEN prev[key]
                                 ELSE Num(0)

\* The current-metrics query and the top-users query fail; the previous
\* metrics and the daily series are returned
C17_Witness ==
    /\ PoolEngine /\ Returned
    /\ ~sql_env.ok.curr /\ sql_env.ok.prev
    /\ sql_env.ok.daily /\ ~sql_env.ok.top
    /\ Len(pool.response.dailyData) = 1
    /\ pool.response.topUsers = <<>>
    /\ pool.response.metrics["tsClaim"].Prev = Num(1)
    /\ pool.response.metrics["tsClaim"].Current = Num(0)

-----------------------------------------------------------------------------
(* Claims about the sheet cache (SpecCache) *)

\* A forced load_data whose fetch failed
FailedRefresh(call) ==
    /\ call.op = "load_data"
    /\ call.force_refresh
    /\ call.status = "raised"

\* A load_data that returned a snapshot
Succeeded(call) == call.op = "load_data" /\ call.status = "returned"

====
